---------------------------- MODULE Spec2Model ----------------------------
(***************************************************************************)
(* Model of the IP analysis server of 29-Nov-VPN: server/routes.ts (the    *)
(* revision with PyProxy/APIIP adapters and vpnProvider), server/storage.ts*)
(* (MongoStorage, the storage the routes import) and shared/schema.ts.     *)
(*                                                                         *)
(* JavaScript values are encoded as follows.                               *)
(*   - an object is a record; a property that is undefined is a field the  *)
(*     record does not have (Has(o, f) is FALSE);                          *)
(*   - an adapter result of null is the record Null;                       *)
(*   - a flag property holds the text of its JavaScript literal: the       *)
(*     boolean true is "true", the string "true" is "\"true\"", so that    *)
(*     strict equality (===) is equality of these texts;                   *)
(*   - strings are TLA+ strings, read character by character with          *)
(*     Len / SubSeq / \o;                                                  *)
(*   - a null string property of a result is NullStr.                      *)
(***************************************************************************)
EXTENDS Integers, Sequences, FiniteSets, TLC

VARIABLES
    input,          \* classification specifications: the arguments of the call
    result,         \* its return value (NoResult before the call)
    pc,             \* "start" before the call, then the name of what ran
    useDatabase,    \* storage.ts: set by MongoStorage.connect
    memoryAnalyses, \* storage.ts: the Map id -> analysis, as the set of its values
    memoryWhois,    \* storage.ts: the Map ipAddress -> WHOIS record
    dbAnalyses,     \* the MongoDB collection behind AnalysisModel
    dbWhois,        \* the MongoDB collection behind WhoisModel
    redis,          \* routes.ts: "up" while the client object is kept, "null" after
    cache,          \* the Redis keyspace: key -> [value, expiresAt]
    now,            \* the clock, in seconds
    nextId,         \* the next identifier randomUUID / ObjectId hands out
    request,        \* the last HTTP request handled, with what its adapters answered
    response,       \* the response sent to it
    memCache,       \* storage.ts: MemStorage.cache, ipAddress -> entry
    clock,          \* Date.now(), in milliseconds
    analyses,       \* storage.ts: MemStorage.analyses, as the set of its values
    requestCounts   \* routes.ts: the Map client address -> [count, resetAt]

classifyVars == <<input, result, pc>>
serverVars == <<useDatabase, memoryAnalyses, memoryWhois, dbAnalyses, dbWhois,
                redis, cache, now, nextId, request, response>>
memVars == <<memCache, clock, analyses>>
limitVars == <<requestCounts>>
vars == <<classifyVars, serverVars, memVars, limitVars>>

----------------------------------------------------------------------------
(* JavaScript value encoding *)

Null == [null |-> TRUE]
NullStr == "<null>"
JsTrue == "true"
JsFalse == "false"
JsStrTrue == "\"true\""

Has(o, f) == f \in DOMAIN o

Max(a, b) == IF a >= b THEN a ELSE b
Min(a, b) == IF a <= b THEN a ELSE b

----------------------------------------------------------------------------
(* String primitives used by routes.ts *)

UpperToLower ==
    [A |-> "a", B |-> "b", C |-> "c", D |-> "d", E |-> "e", F |-> "f",
     G |-> "g", H |-> "h", I |-> "i", J |-> "j", K |-> "k", L |-> "l",
     M |-> "m", N |-> "n", O |-> "o", P |-> "p", Q |-> "q", R |-> "r",
     S |-> "s", T |-> "t", U |-> "u", V |-> "v", W |-> "w", X |-> "x",
     Y |-> "y", Z |-> "z"]

LowerChar(c) == IF c \in DOMAIN UpperToLower THEN UpperToLower[c] ELSE c

RECURSIVE toLowerCase(_)
toLowerCase(s) ==
    IF Len(s) = 0 THEN ""
    ELSE LowerChar(SubSeq(s, 1, 1)) \o toLowerCase(SubSeq(s, 2, Len(s)))

\* String.prototype.includes: t occurs in s as a contiguous substring.
includes(s, t) ==
    \E i \in 1..(Len(s) - Len(t) + 1) : SubSeq(s, i, i + Len(t) - 1) = t

\* Index of the first space of s, 0 when there is none.
FirstSpace(s) ==
    IF \E i \in 1..Len(s) : SubSeq(s, i, i) = " "
    THEN CHOOSE i \in 1..Len(s) :
            /\ SubSeq(s, i, i) = " "
            /\ \A j \in 1..(i - 1) : SubSeq(s, j, j) # " "
    ELSE 0

\* s.split(" ").slice(1).join(" "): what follows the first space, "" if none.
AfterFirstWord(s) ==
    IF FirstSpace(s) = 0 THEN "" ELSE SubSeq(s, FirstSpace(s) + 1, Len(s))

----------------------------------------------------------------------------
(* Static lists of routes.ts *)

VPN_PROVIDERS ==
    << "NordVPN", "ExpressVPN", "Surfshark", "ProtonVPN", "CyberGhost",
       "IPVanish", "Private Internet Access", "PIA", "Windscribe", "TunnelBear",
       "Turbo VPN", "TurboVPN", "HotspotShield", "VyprVPN", "StrongVPN", "Mullvad", "turbo",
       "IVPN", "PureVPN", "SaferVPN", "VPN Gate", "Astrill", "Bitdefender VPN",
       "Avast VPN", "AVG VPN", "McAfee VPN", "Norton VPN", "Perfect Privacy",
       "Freedome", "Hotspot Shield", "Hide My Ass", "HMA", "VPNBook",
       "VPNGate", "Psiphon", "UltraVPN", "VPNArea", "ibVPN", "SlickVPN",
       "CyberVPN", "VPN.com", "FastVPN", "VPNSecure", "BTGuard",
       "SecureVPN", "VPNUnlimited", "IronSocket", "ZenMate", "VPNMaster", "KeepSolid",
       "Betternet", "Touch VPN", "Thunder VPN", "Snap VPN", "Free VPN", "ProxyMaster",
       "VPN Master", "Unblock", "Browsec", "ZenVPN", "UFO VPN" >>

HOSTING_PROVIDERS ==
    << "AWS", "Azure", "Google Cloud", "DigitalOcean", "Linode", "Vultr",
       "Zenlayer", "Softlayer", "Equinix", "Rackspace", "OVH", "Hetzner",
       "Scaleway", "Packet", "UpCloud", "Brightbox", "Joyent", "ProfitBricks",
       "Heroku", "Openshift", "EC2", "Compute Engine", "App Service" >>

VPN_HOSTING_PROVIDERS ==
    << "Zenlayer", "Softlayer", "Equinix", "Packet", "Vultr", "DigitalOcean", "OVH",
       "Datacamp", "Contabo", "M247", "BudgetVM", "Nocix", "Ryukish", "VPS.ag",
       "ColoCrossing", "Leaseweb", "Cogent", "Voxility", "VHoster",
       "The Constant Company", "ConstantCompany", "Constant Company", "AS20473" >>

\* v.toLowerCase() for every entry v of a list, computed once per list.
LowerList(list) == [i \in 1..Len(list) |-> toLowerCase(list[i])]

VPN_PROVIDERS_LOWER == LowerList(VPN_PROVIDERS)
HOSTING_PROVIDERS_LOWER == LowerList(HOSTING_PROVIDERS)
VPN_HOSTING_PROVIDERS_LOWER == LowerList(VPN_HOSTING_PROVIDERS)

\* The predicate both find() and some() are called with:
\*   v => orgLower.includes(v.toLowerCase()) || ispLower.includes(v.toLowerCase())
\* where vLower is v.toLowerCase().
EntryMatches(vLower, orgLower, ispLower) ==
    \/ includes(orgLower, vLower)
    \/ includes(ispLower, vLower)

\* The index of the last entry of the list that matches, 0 when none does.
LastMatch(lowerList, orgLower, ispLower) ==
    LET hits == {i \in 1..Len(lowerList) :
                    EntryMatches(lowerList[i], orgLower, ispLower)}
    IN  IF hits = {} THEN 0
        ELSE CHOOSE i \in hits : \A j \in hits : i >= j

\* The index of the first entry of the list that matches, 0 when none does.
FirstMatch(lowerList, orgLower, ispLower) ==
    LET hits == {i \in 1..Len(lowerList) :
                    EntryMatches(lowerList[i], orgLower, ispLower)}
    IN  IF hits = {} THEN 0
        ELSE CHOOSE i \in hits : \A j \in hits : i <= j

\* Array.prototype.find: the first element satisfying the predicate,
\* undefined (here NullStr, which is falsy like undefined) when there is none.
FindEntry(list, lowerList, orgLower, ispLower) ==
    LET i == FirstMatch(lowerList, orgLower, ispLower)
    IN  IF i = 0 THEN NullStr ELSE list[i]

\* Array.prototype.some
SomeEntry(lowerList, orgLower, ispLower) ==
    FirstMatch(lowerList, orgLower, ispLower) # 0

----------------------------------------------------------------------------
(* shared/schema.ts *)

getThreatLevelFromScore(score) ==
    IF score < 25 THEN "low"
    ELSE IF score < 50 THEN "medium"
    ELSE IF score < 75 THEN "high"
    ELSE "critical"

Digits == {"0", "1", "2", "3", "4", "5", "6", "7", "8", "9"}
HexDigits == Digits \cup {"a", "b", "c", "d", "e", "f", "A", "B", "C", "D", "E", "F"}

\* s.split(sep) for a one-character separator.
RECURSIVE Split(_, _)
Split(s, sep) ==
    IF \E i \in 1..Len(s) : SubSeq(s, i, i) = sep
    THEN LET i == CHOOSE k \in 1..Len(s) :
                      /\ SubSeq(s, k, k) = sep
                      /\ \A j \in 1..(k - 1) : SubSeq(s, j, j) # sep
         IN <<SubSeq(s, 1, i - 1)>> \o Split(SubSeq(s, i + 1, Len(s)), sep)
    ELSE <<s>>

AllIn(t, chars) == \A i \in 1..Len(t) : SubSeq(t, i, i) \in chars

\* 25[0-5]|2[0-4][0-9]|[01]?[0-9][0-9]?
IsOctet(t) ==
    /\ Len(t) \in 1..3
    /\ AllIn(t, Digits)
    /\ Len(t) = 3 =>
          \/ SubSeq(t, 1, 1) \in {"0", "1"}
          \/ SubSeq(t, 1, 1) = "2" /\ SubSeq(t, 2, 2) \in {"0", "1", "2", "3", "4"}
          \/ SubSeq(t, 1, 2) = "25" /\ SubSeq(t, 3, 3) \in {"0", "1", "2", "3", "4", "5"}

\* ipv4Regex.test(ip): (octet\.){3}octet
ipv4Regex(ip) ==
    LET parts == Split(ip, ".")
    IN  Len(parts) = 4 /\ \A i \in 1..4 : IsOctet(parts[i])

\* [a-fA-F0-9]{1,4}
IsHexGroup(t) == Len(t) \in 1..4 /\ AllIn(t, HexDigits)

\* ipv6Regex.test(ip).  With the address cut at its colons, the eight
\* alternatives of the pattern are: eight groups; an empty first and second
\* piece followed by one to seven groups ("::" in front); or a groups, one
\* empty piece, and b + 1 groups, for the (a, b) ranges of alternatives 3 to 8.
ipv6Regex(ip) ==
    LET toks == Split(ip, ":")
        n == Len(toks)
    IN  \/ n = 8 /\ \A i \in 1..n : IsHexGroup(toks[i])
        \/ /\ n \in 3..9
           /\ toks[1] = "" /\ toks[2] = ""
           /\ \A i \in 3..n : IsHexGroup(toks[i])
        \/ \E k \in 2..(n - 1) :
              /\ toks[k] = ""
              /\ \A i \in (1..n) \ {k} : IsHexGroup(toks[i])
              /\ LET a == k - 1
                     b == n - k - 1
                 IN  \/ a = 1 /\ b <= 5
                     \/ a <= 2 /\ b <= 4
                     \/ a <= 3 /\ b <= 3
                     \/ a <= 4 /\ b <= 2
                     \/ a <= 5 /\ b <= 1
                     \/ a <= 6 /\ b = 0

isValidIpAddress(ip) == ipv4Regex(ip) \/ ipv6Regex(ip)

\* null is NullStr
getIpVersion(ip) ==
    IF ipv4Regex(ip) THEN "IPv4"
    ELSE IF ipv6Regex(ip) THEN "IPv6"
    ELSE NullStr

----------------------------------------------------------------------------
(* generateRealAnalysis (routes.ts, current revision) *)

\* o?.f || dflt for a string property: undefined, null object and "" are falsy.
StrOr(o, f, dflt) ==
    IF o # Null /\ Has(o, f) /\ o[f] # "" THEN o[f] ELSE dflt

\* o?.f === lit
FlagIs(o, f, lit) == o # Null /\ Has(o, f) /\ o[f] = lit

\* Math.round(x * 0.9) for an integer x: the nearest integer, ties upwards.
RoundNineTenths(x) == (9 * x + 5) \div 10

\* Variants of RiskSteps: without the final clamp; with the VPN score of the
\* earlier revision; with the datacenter rule as a floor of 35.
RiskStepsNoClamp(isVpn, isProxy, isTor, isDatacenter, abuseData) ==
    LET s1 == IF isVpn THEN 75 ELSE 0
        s2 == IF isProxy THEN Max(s1, 70) ELSE s1
        s3 == IF isTor THEN 95 ELSE s2
        s4 == IF isDatacenter /\ ~isVpn /\ ~isProxy THEN 45 ELSE s3
        s5 == IF /\ abuseData # Null
                 /\ Has(abuseData, "abuseConfidenceScore")
                 /\ abuseData.abuseConfidenceScore # 0
              THEN Max(s4, RoundNineTenths(abuseData.abuseConfidenceScore))
              ELSE s4
        s6 == IF /\ abuseData # Null
                 /\ Has(abuseData, "totalReports")
                 /\ abuseData.totalReports > 3
              THEN Min(100, s5 + 15)
              ELSE s5
        s7 == s6
    IN  <<s1, s2, s3, s4, s5, s6, s7>>

RiskStepsVpn70(isVpn, isProxy, isTor, isDatacenter, abuseData) ==
    LET s1 == IF isVpn THEN 70 ELSE 0
        s2 == IF isProxy THEN Max(s1, 70) ELSE s1
        s3 == IF isTor THEN 95 ELSE s2
        s4 == IF isDatacenter /\ ~isVpn /\ ~isProxy THEN 45 ELSE s3
        s5 == IF /\ abuseData # Null
                 /\ Has(abuseData, "abuseConfidenceScore")
                 /\ abuseData.abuseConfidenceScore # 0
              THEN Max(s4, RoundNineTenths(abuseData.abuseConfidenceScore))
              ELSE s4
        s6 == IF /\ abuseData # Null
                 /\ Has(abuseData, "totalReports")
                 /\ abuseData.totalReports > 3
              THEN Min(100, s5 + 15)
              ELSE s5
        s7 == Min(100, Max(0, s6))
    IN  <<s1, s2, s3, s4, s5, s6, s7>>

RiskStepsDatacenterMax35(isVpn, isProxy, isTor, isDatacenter, abuseData) ==
    LET s1 == IF isVpn THEN 75 ELSE 0
        s2 == IF isProxy THEN Max(s1, 70) ELSE s1
        s3 == IF isTor THEN 95 ELSE s2
        s4 == IF isDatacenter /\ ~isVpn /\ ~isProxy THEN Max(s3, 35) ELSE s3
        s5 == IF /\ abuseData # Null
                 /\ Has(abuseData, "abuseConfidenceScore")
                 /\ abuseData.abuseConfidenceScore # 0
              THEN Max(s4, RoundNineTenths(abuseData.abuseConfidenceScore))
              ELSE s4
        s6 == IF /\ abuseData # Null
                 /\ Has(abuseData, "totalReports")
                 /\ abuseData.totalReports > 3
              THEN Min(100, s5 + 15)
              ELSE s5
        s7 == Min(100, Max(0, s6))
    IN  <<s1, s2, s3, s4, s5, s6, s7>>

\* The rules with the report boost moved in front of the abuse score.
RiskStepsBoostBeforeAbuse(isVpn, isProxy, isTor, isDatacenter, abuseData) ==
    LET s1 == IF isVpn THEN 75 ELSE 0
        s2 == IF isProxy THEN Max(s1, 70) ELSE s1
        s3 == IF isTor THEN 95 ELSE s2
        s4 == IF isDatacenter /\ ~isVpn /\ ~isProxy THEN 45 ELSE s3
        s5 == IF /\ abuseData # Null
                 /\ Has(abuseData, "totalReports")
                 /\ abuseData.totalReports > 3
              THEN Min(100, s4 + 15)
              ELSE s4
        s6 == IF /\ abuseData # Null
                 /\ Has(abuseData, "abuseConfidenceScore")
                 /\ abuseData.abuseConfidenceScore # 0
              THEN Max(s5, RoundNineTenths(abuseData.abuseConfidenceScore))
              ELSE s5
        s7 == Min(100, Max(0, s6))
    IN  <<s1, s2, s3, s4, s5, s6, s7>>

\* The running score after each rule of the sequence, in order:
\* <<VPN, proxy, Tor, datacenter, abuse score, report boost, clamp>>.
RiskSteps(isVpn, isProxy, isTor, isDatacenter, abuseData) ==
    LET s1 == IF isVpn THEN 75 ELSE 0
        s2 == IF isProxy THEN Max(s1, 70) ELSE s1
        s3 == IF isTor THEN 95 ELSE s2
        s4 == IF isDatacenter /\ ~isVpn /\ ~isProxy THEN 45 ELSE s3
        s5 == IF /\ abuseData # Null
                 /\ Has(abuseData, "abuseConfidenceScore")
                 /\ abuseData.abuseConfidenceScore # 0
              THEN Max(s4, RoundNineTenths(abuseData.abuseConfidenceScore))
              ELSE s4
        s6 == IF /\ abuseData # Null
                 /\ Has(abuseData, "totalReports")
                 /\ abuseData.totalReports > 3
              THEN Min(100, s5 + 15)
              ELSE s5
        s7 == Min(100, Max(0, s6))
    IN  <<s1, s2, s3, s4, s5, s6, s7>>

\* if (matchedVpnProvider) vpnProvider = matchedVpnProvider;
\* else if (matchedVpnHosting) vpnProvider = matchedVpnHosting;   (else null)
SelectVpnProviderHostingFirst(matchedVpnProvider, matchedVpnHosting) ==
    IF matchedVpnHosting # NullStr THEN matchedVpnHosting
    ELSE IF matchedVpnProvider # NullStr THEN matchedVpnProvider
    ELSE NullStr

SelectVpnProvider(matchedVpnProvider, matchedVpnHosting) ==
    IF matchedVpnProvider # NullStr THEN matchedVpnProvider
    ELSE IF matchedVpnHosting # NullStr THEN matchedVpnHosting
    ELSE NullStr

\* const isTor = abuseData?.isTor === true || false;
isTorLoose(abuseData) ==
    FlagIs(abuseData, "isTor", JsTrue) \/ FlagIs(abuseData, "isTor", JsStrTrue)

isTorOf(abuseData) == FlagIs(abuseData, "isTor", JsTrue)

generateRealAnalysis(ip, geoData, abuseData, pyProxyData, apiipData, at) ==
    LET ipVersion == IF getIpVersion(ip) # NullStr THEN getIpVersion(ip) ELSE "IPv4"
        country == StrOr(geoData, "country", StrOr(apiipData, "country_name", "Unknown"))
        countryCode == country
        city == StrOr(geoData, "city", StrOr(apiipData, "city", "Unknown"))
        region == StrOr(geoData, "region", city)
        organization == StrOr(geoData, "org", "Unknown")
        derivedIsp == IF AfterFirstWord(organization) # ""
                      THEN AfterFirstWord(organization) ELSE "Unknown"
        isp == StrOr(geoData, "isp", derivedIsp)
        asn == StrOr(geoData, "asn", "Unknown")
        timezone == StrOr(geoData, "timezone", "UTC")
        orgLower == toLowerCase(organization)
        ispLower == toLowerCase(isp)
        matchedVpnProvider == FindEntry(VPN_PROVIDERS, VPN_PROVIDERS_LOWER, orgLower, ispLower)
        matchedVpnHosting == FindEntry(VPN_HOSTING_PROVIDERS, VPN_HOSTING_PROVIDERS_LOWER,
                                       orgLower, ispLower)
        vpnProvider == SelectVpnProvider(matchedVpnProvider, matchedVpnHosting)
        isVpnProvider == matchedVpnProvider # NullStr
        isVpnHosting == matchedVpnHosting # NullStr
        isHosting == SomeEntry(HOSTING_PROVIDERS_LOWER, orgLower, ispLower)
        isVpn == \/ isVpnProvider
                 \/ isVpnHosting
                 \/ FlagIs(pyProxyData, "is_vpn", JsTrue)
                 \/ FlagIs(apiipData, "is_vpn", JsStrTrue)
                 \/ includes(orgLower, "vpn")
                 \/ includes(ispLower, "vpn")
        isProxy == \/ FlagIs(pyProxyData, "is_proxy", JsTrue)
                   \/ FlagIs(apiipData, "is_proxy", JsStrTrue)
                   \/ includes(ispLower, "proxy")
                   \/ (abuseData # Null /\ Has(abuseData, "usageType")
                         /\ abuseData.usageType = "Data Center")
        isTor == isTorOf(abuseData)
        isDatacenter == \/ isHosting
                        \/ includes(orgLower, "datacenter")
                        \/ includes(orgLower, "hosting")
        riskScore == RiskSteps(isVpn, isProxy, isTor, isDatacenter, abuseData)[7]
        threatLevel == getThreatLevelFromScore(riskScore)
    IN  [ipAddress |-> ip,
         ipVersion |-> ipVersion,
         riskScore |-> riskScore,
         isVpn |-> isVpn,
         isProxy |-> isProxy,
         isTor |-> isTor,
         isDatacenter |-> isDatacenter,
         threatLevel |-> threatLevel,
         vpnProvider |-> vpnProvider,
         isp |-> isp,
         organization |-> organization,
         asn |-> asn,
         country |-> country,
         countryCode |-> countryCode,
         city |-> city,
         region |-> region,
         timezone |-> timezone,
         analyzedAt |-> at]

----------------------------------------------------------------------------
(* Inputs of the classification specifications *)

\* Optional fields: every way of giving each field of vals one of its values
\* or leaving it out.  vals maps a field name to its set of values.
RECURSIVE OptRecords(_, _)
OptRecords(fields, vals) ==
    IF fields = {} THEN {<<>>}
    ELSE LET f == CHOOSE x \in fields : TRUE
             rest == OptRecords(fields \ {f}, vals)
         IN  rest \cup {(f :> v) @@ r : v \in vals[f], r \in rest}

OrgSamples ==
    {"NordVPN International", "Amazon AWS", "Acme VPN Services",
     "Comcast Cable", "Zenlayer Inc", "Tor Exit Hosting"}

IspSamples == {"Squid Proxy Net", "NordVPN Hosting"}

\* ipinfo.io answers: an object with optional org and isp, or null.
GeoSamples ==
    {Null} \cup OptRecords({"org", "isp"},
                           [org |-> OrgSamples, isp |-> IspSamples])

\* AbuseIPDB answers.  The scores cover both sides of every threat-level
\* threshold after the 0.9 scaling, zero, and values outside 0..100.
AbuseScoreSamples == {-20, 0, 27, 28, 40, 55, 83, 100, 106, 130}
ReportSamples == {3, 4}

AbuseSamples ==
    {Null}
    \cup OptRecords({"isTor", "abuseConfidenceScore", "totalReports", "usageType"},
                    [isTor |-> {JsTrue, JsStrTrue},
                     abuseConfidenceScore |-> {130},
                     totalReports |-> {0, 3, 4},
                     usageType |-> {"Data Center"}])
    \cup OptRecords({"abuseConfidenceScore", "totalReports"},
                    [abuseConfidenceScore |-> AbuseScoreSamples,
                     totalReports |-> ReportSamples])

\* PyProxy answers: its flags are booleans.
PyProxySamples == {Null, [is_vpn |-> JsTrue], [is_proxy |-> JsTrue]}

\* APIIP answers: the flags the code looks for are the strings "true".
ApiipSamples ==
    {Null, [is_vpn |-> JsStrTrue, city |-> "Pune"],
     [is_vpn |-> JsTrue, is_proxy |-> JsStrTrue]}

NoResult == [none |-> TRUE]

\* A rejected promise.
Rejected == [rejected |-> TRUE]

\* The instant new Date() reads in the classification specifications.
ClassifyTime == 0

----------------------------------------------------------------------------
(* POST /api/analyze: choosing between live data and the mock fallback *)

\* const hasRealData = !!geoData || !!apiipData;
hasRealData(geoData, apiipData) == geoData # Null \/ apiipData # Null

\* The literal of the "Fallback to mock" branch.
MockAnalysis(ipAddress, at) ==
    [ipAddress |-> ipAddress,
     ipVersion |-> "IPv4",
     riskScore |-> 15,
     isVpn |-> FALSE,
     isProxy |-> FALSE,
     isTor |-> FALSE,
     isDatacenter |-> FALSE,
     threatLevel |-> "low",
     vpnProvider |-> NullStr,
     isp |-> "Unknown ISP",
     organization |-> "Unknown Organization",
     asn |-> "AS0000",
     country |-> "Unknown",
     countryCode |-> "XX",
     city |-> "Unknown",
     region |-> "Unknown",
     timezone |-> "UTC",
     analyzedAt |-> at]

\* let analysisData: if (hasRealData) ... else ...
analysisData(ipAddress, geoData, abuseData, pyProxyData, apiipData, at) ==
    IF hasRealData(geoData, apiipData)
    THEN generateRealAnalysis(ipAddress, geoData, abuseData, pyProxyData,
                              apiipData, at)
    ELSE MockAnalysis(ipAddress, at)

----------------------------------------------------------------------------
(* The requests and adapter answers of the server specification *)

MaxAnalyses == 2     \* createAnalysis calls in one behaviour
MaxTime == 3600      \* the clock stops here
TickStep == 3600     \* seconds between two instants the model looks at
CACHE_TTL == 3600

ValidIps == {"8.8.8.8", "2001:db8::1"}
RequestIps == ValidIps \cup {"8.8.8.256"}
CacheTickStep == 1800   \* the finer step of the cache specification
Instants == {t \in 0..MaxTime : t % TickStep = 0 \/ t % CacheTickStep = 0}

AllNullAnswers ==
    [geoData |-> Null, abuseData |-> Null, pyProxyData |-> Null, apiipData |-> Null]

\* What the four adapters of one analysis answer.  fetchWhoisXML's answer is
\* awaited by POST /api/analyze and never read.
ProviderAnswers ==
    {AllNullAnswers,
     [AllNullAnswers EXCEPT !.geoData = [org |-> "NordVPN International",
                                         country |-> "US", city |-> "Miami"]],
     [AllNullAnswers EXCEPT !.abuseData = [isTor |-> JsTrue,
                                           abuseConfidenceScore |-> 100,
                                           totalReports |-> 12]],
     [AllNullAnswers EXCEPT !.apiipData = [is_vpn |-> JsStrTrue, city |-> "Pune",
                                           country_name |-> "India"]]}

\* The address lists POST /api/bulk-analyze is called with, and what the
\* adapters may answer for an address of such a list.
BulkIpLists ==
    {<<"8.8.8.8">>, <<"8.8.8.256">>, <<"8.8.8.256", "2001:db8::1">>,
     <<"8.8.8.8", "8.8.8.8">>}

BulkAnswers ==
    {p \in ProviderAnswers : p.abuseData = Null /\ p.apiipData = Null}

\* isValidIpAddress, getIpVersion, generateRealAnalysis and analysisData on the
\* arguments the server specification calls them with, computed once.
\* Strings that are not addresses: an octet out of range, too few octets, a
\* triple colon, a trailing space, the empty string.
MalformedIps == {"8.8.8.256", "1.2.3", "2001:db8:::1", "8.8.8.8 ", ""}

\* Every string a request of the model carries.
AllIps == RequestIps \cup MalformedIps

\* isValidIpAddress with a pattern for IPv4 that takes any run of digits as
\* an octet.
isValidIpAddressLoose(ip) ==
    \/ LET parts == Split(ip, ".")
       IN  Len(parts) = 4 /\ \A i \in 1..4 : parts[i] # "" /\ AllIn(parts[i], Digits)
    \/ ipv6Regex(ip)

ValidTableLoose == [ip \in AllIps |-> isValidIpAddressLoose(ip)]

ValidTable == [ip \in AllIps |-> isValidIpAddress(ip)]

RealAnalysisTable ==
    [ip \in AllIps, p \in ProviderAnswers, t \in Instants |->
        generateRealAnalysis(ip, p.geoData, p.abuseData, p.pyProxyData,
                             p.apiipData, t)]

AnalysisDataTable ==
    [ip \in AllIps, p \in ProviderAnswers, t \in Instants |->
        analysisData(ip, p.geoData, p.abuseData, p.pyProxyData, p.apiipData, t)]

----------------------------------------------------------------------------
(* storage.ts: MongoStorage *)

\* The paths of analysisSchema: what a stored document keeps of an insert.
AnalysisSchemaFields ==
    {"ipAddress", "ipVersion", "riskScore", "isVpn", "isProxy", "isTor",
     "isDatacenter", "threatLevel", "isp", "organization", "asn", "country",
     "countryCode", "city", "region", "latitude", "longitude", "timezone",
     "analyzedAt"}

Restrict(r, fields) == [f \in (DOMAIN r) \cap fields |-> r[f]]

\* A store is the part of the state the storage methods read and write.
Store(mem, whoisMem, db, whoisDb, id) ==
    [memoryAnalyses |-> mem, memoryWhois |-> whoisMem, dbAnalyses |-> db,
     dbWhois |-> whoisDb, nextId |-> id]

\* createAnalysis that, when the create rejects, gives back a record without
\* the computed detections.
createAnalysisBlank(st, insertAnalysis, useDb, dbOk) ==
    LET id == st.nextId
        analysis == insertAnalysis @@ [id |-> id]
        st1 == [st EXCEPT !.memoryAnalyses = @ \cup {analysis},
                          !.nextId = @ + 1]
        doc == Restrict(insertAnalysis, AnalysisSchemaFields) @@ [id |-> st1.nextId]
    IN  IF ~useDb
        THEN [store |-> st1, ret |-> analysis]
        ELSE IF ~dbOk
        THEN [store |-> st1,
              ret |-> [analysis EXCEPT !.riskScore = 0, !.threatLevel = "low",
                                       !.isVpn = FALSE, !.isProxy = FALSE,
                                       !.isTor = FALSE, !.isDatacenter = FALSE]]
        ELSE [store |-> [st1 EXCEPT !.dbAnalyses = @ \cup {doc}, !.nextId = @ + 1],
              ret |-> doc]

\* createAnalysis with the Map keyed by address: a new analysis of an
\* address takes the place of the earlier one.
createAnalysisUpsert(st, insertAnalysis, useDb, dbOk) ==
    LET id == st.nextId
        analysis == insertAnalysis @@ [id |-> id]
        st1 == [st EXCEPT !.memoryAnalyses =
                              {r \in @ : r.ipAddress # insertAnalysis.ipAddress}
                              \cup {analysis},
                          !.nextId = @ + 1]
        doc == Restrict(insertAnalysis, AnalysisSchemaFields) @@ [id |-> st1.nextId]
    IN  IF ~useDb \/ ~dbOk
        THEN [store |-> st1, ret |-> analysis]
        ELSE [store |-> [st1 EXCEPT !.dbAnalyses = @ \cup {doc}, !.nextId = @ + 1],
              ret |-> doc]

\* createAnalysis: the record is put in the Map under a fresh id; with a
\* database the document is created too and returned under its own _id,
\* unless the create rejects (dbOk = FALSE), when the Map's record is returned.
createAnalysis(st, insertAnalysis, useDb, dbOk) ==
    LET id == st.nextId
        analysis == insertAnalysis @@ [id |-> id]
        st1 == [st EXCEPT !.memoryAnalyses = @ \cup {analysis},
                          !.nextId = @ + 1]
        doc == Restrict(insertAnalysis, AnalysisSchemaFields) @@ [id |-> st1.nextId]
    IN  IF ~useDb \/ ~dbOk
        THEN [store |-> st1, ret |-> analysis]
        ELSE [store |-> [st1 EXCEPT !.dbAnalyses = @ \cup {doc}, !.nextId = @ + 1],
              ret |-> doc]

\* createWhoisRecord: as createAnalysis, the Map being keyed by ipAddress.
createWhoisRecord(st, insertRecord, useDb, dbOk) ==
    LET id == st.nextId
        whois == insertRecord @@ [id |-> id]
        st1 == [st EXCEPT !.memoryWhois =
                              (insertRecord.ipAddress :> whois) @@ @,
                          !.nextId = @ + 1]
        doc == insertRecord @@ [id |-> st1.nextId]
    IN  IF ~useDb \/ ~dbOk
        THEN [store |-> st1, ret |-> whois]
        ELSE [store |-> [st1 EXCEPT !.dbWhois = @ \cup {doc}, !.nextId = @ + 1],
              ret |-> doc]

\* The identifiers randomUUID gave the records of the Map.  They are not
\* ObjectIds: a query by _id with one of them fails its cast and rejects.
UuidsOf(st) == {r.id : r \in st.memoryAnalyses}

\* The records of S, latest analyzedAt first; records of the same instant
\* keep the order they were created in (ids grow with creation).
RECURSIVE SortedByAnalyzedAtDesc(_)
SortedByAnalyzedAtDesc(S) ==
    IF S = {} THEN <<>>
    ELSE LET first == CHOOSE r \in S :
                         \A q \in S :
                             \/ r.analyzedAt > q.analyzedAt
                             \/ r.analyzedAt = q.analyzedAt /\ r.id <= q.id
         IN  <<first>> \o SortedByAnalyzedAtDesc(S \ {first})

\* getAnalysis: nothing without a database; else findById.  dbOk = FALSE is
\* the query rejecting.
getAnalysis(st, id, useDb, dbOk) ==
    IF ~useDb THEN NoResult
    ELSE IF ~dbOk \/ id \in UuidsOf(st) THEN Rejected
    ELSE IF \E d \in st.dbAnalyses : d.id = id
    THEN CHOOSE d \in st.dbAnalyses : d.id = id
    ELSE NoResult

\* getWhoisByIp: nothing without a database; else the latest document of
\* the address.
getWhoisByIp(st, ipAddress, useDb, dbOk) ==
    IF ~useDb THEN NoResult
    ELSE IF ~dbOk THEN Rejected
    ELSE LET docs == {d \in st.dbWhois : d.ipAddress = ipAddress}
         IN  IF docs = {} THEN NoResult
             ELSE CHOOSE d \in docs :
                      \A q \in docs :
                          \/ d.fetchedAt > q.fetchedAt
                          \/ d.fetchedAt = q.fetchedAt /\ d.id >= q.id

\* getAllAnalyses: the documents of the collection, or the Map's records
\* when there is no database or the query rejects.
getAllAnalyses(st, useDb, dbOk) ==
    IF useDb /\ dbOk THEN SortedByAnalyzedAtDesc(st.dbAnalyses)
    ELSE SortedByAnalyzedAtDesc(st.memoryAnalyses)

\* deleteAnalysis: false without a database; else deleteOne by _id and
\* whether a document went.  The Map is not touched.  rejected: the call
\* rejects instead of returning.
deleteAnalysis(st, id, useDb, dbOk) ==
    IF ~useDb THEN [store |-> st, ret |-> FALSE, rejected |-> FALSE]
    ELSE IF ~dbOk \/ id \in UuidsOf(st)
    THEN [store |-> st, ret |-> FALSE, rejected |-> TRUE]
    ELSE [store |-> [st EXCEPT !.dbAnalyses = {d \in @ : d.id # id}],
          ret |-> \E d \in st.dbAnalyses : d.id = id,
          rejected |-> FALSE]

\* a.riskScore ?? 0
ScoreOrZero(a) == IF Has(a, "riskScore") THEN a.riskScore ELSE 0

\* The filter for threatsDetected with the threshold of threat level
\* critical.
ThreatsInCriticalOnly(allAnalyses) == {a \in allAnalyses : ScoreOrZero(a) > 75}

\* The three filters of getStats.
ThreatsIn(allAnalyses) == {a \in allAnalyses : ScoreOrZero(a) >= 50}

CleanIn(allAnalyses) == {a \in allAnalyses : ScoreOrZero(a) < 30}

VpnsIn(allAnalyses) == {a \in allAnalyses : a.isVpn}

\* let allAnalyses: the collection, or the Map when there is no database or
\* the query rejects.
StatsSource(st, useDb, dbOk) ==
    IF useDb /\ dbOk THEN st.dbAnalyses ELSE st.memoryAnalyses

\* getStats
getStats(st, useDb, dbOk) ==
    [totalScans |-> Cardinality(StatsSource(st, useDb, dbOk)),
     threatsDetected |-> Cardinality(ThreatsIn(StatsSource(st, useDb, dbOk))),
     cleanIps |-> Cardinality(CleanIn(StatsSource(st, useDb, dbOk))),
     vpnsDetected |-> Cardinality(VpnsIn(StatsSource(st, useDb, dbOk)))]

----------------------------------------------------------------------------
(* routes.ts: the handlers *)

\* parts.join(sep)
RECURSIVE Join(_, _)
Join(parts, sep) ==
    IF Len(parts) = 0 THEN ""
    ELSE IF Len(parts) = 1 THEN parts[1]
    ELSE parts[1] \o sep \o Join(Tail(parts), sep)

\* ip.split(".").slice(0, 2).join("-")
FirstTwoParts(ip) ==
    LET parts == Split(ip, ".")
    IN  Join(SubSeq(parts, 1, Min(2, Len(parts))), "-")

NetNameTable == [ip \in AllIps |-> "NET-" \o FirstTwoParts(ip)]

\* The argument both handlers give createWhoisRecord.
WhoisInsert(ipAddress, data, at) ==
    [ipAddress |-> ipAddress,
     domain |-> NullStr,
     registrar |-> "Unknown",
     registrantName |-> "Network Administrator",
     registrantOrg |-> data.organization,
     registrantCountry |-> data.countryCode,
     createdDate |-> "",
     updatedDate |-> "",
     expiresDate |-> NullStr,
     nameServers |-> <<>>,
     netRange |-> ipAddress \o "/24",
     netName |-> NetNameTable[ipAddress],
     netHandle |-> "HANDLE-0000",
     originAs |-> data.asn,
     abuseContact |-> "",
     techContact |-> "",
     fetchedAt |-> at]

cacheKey(ip) == "analysis:" \o ip

\* redis.get(key): the value of a key that is set and has not expired,
\* NoResult (null) otherwise.
RedisGet(c, key, at) ==
    IF key \in DOMAIN c /\ at < c[key].expiresAt THEN c[key].value ELSE NoResult

\* setex that lets the key expire at once.
RedisSetexNoTtl(c, key, ttl, value, at) ==
    (key :> [value |-> value, expiresAt |-> at]) @@ c

\* setex that leaves a key that is already set alone.
RedisSetexIfAbsent(c, key, ttl, value, at) ==
    IF key \in DOMAIN c THEN c
    ELSE (key :> [value |-> value, expiresAt |-> at + ttl]) @@ c

\* redis.setex(key, ttl, value)
RedisSetex(c, key, ttl, value, at) ==
    (key :> [value |-> value, expiresAt |-> at + ttl]) @@ c

\* The result with a cache write that is made whatever the state of the
\* client and always takes effect.
FreshCachedAlways(st, c, ip, p, env, withMock, res) ==
    [store |-> st,
     cache |-> RedisSetex(c, cacheKey(ip), CACHE_TTL, res, now),
     result |-> res,
     answers |-> p,
     mock |-> withMock /\ ~hasRealData(p.geoData, p.apiipData)]

\* const result = { analysis, whois, cached: false, source: "real" } and the
\* setex that follows it.
FreshCached(st, c, ip, p, env, withMock, res) ==
    [store |-> st,
     cache |-> IF redis = "up" /\ env.redisSet
               THEN RedisSetex(c, cacheKey(ip), CACHE_TTL, res, now)
               ELSE c,
     result |-> res,
     answers |-> p,
     mock |-> withMock /\ ~hasRealData(p.geoData, p.apiipData)]

\* From the created whois record w on.
FreshWhois(c, ip, p, env, withMock, analysis, w) ==
    FreshCached(w.store, c, ip, p, env, withMock,
                [analysis |-> analysis, whois |-> w.ret, cached |-> FALSE,
                 source |-> "real"])

\* From the created analysis a on: storage.createWhoisRecord.
FreshCreated(c, ip, p, env, withMock, data, a) ==
    FreshWhois(c, ip, p, env, withMock, a.ret,
               createWhoisRecord(a.store, WhoisInsert(ip, data, now),
                                 useDatabase, env.db))

\* From analysisData (data) on: storage.createAnalysis.
FreshStored(st, c, ip, p, env, withMock, data) ==
    FreshCreated(c, ip, p, env, withMock, data,
                 createAnalysis(st, data, useDatabase, env.db))

\* What one analysis leaves behind and answers.  Lines 671-743 of
\* POST /api/analyze and, with mock = FALSE, lines 859-898 of the loop of
\* POST /api/bulk-analyze, which calls generateRealAnalysis whatever the
\* adapters answered.  env.db: the database creates of this request resolve;
\* env.redisSet: setex resolves.
FreshAnalysis(st, c, ip, p, env, withMock) ==
    FreshStored(st, c, ip, p, env, withMock,
                IF withMock THEN AnalysisDataTable[ip, p, now]
                ELSE RealAnalysisTable[ip, p, now])

CurrentStore == Store(memoryAnalyses, memoryWhois, dbAnalyses, dbWhois, nextId)

\* The ways the database and Redis calls of one request can end.  db: the
\* database creates resolve; redisGet / redisSet: get / setex resolve.  A
\* call that is not made has one outcome.
Envs(getTried) ==
    [db : IF useDatabase THEN BOOLEAN ELSE {TRUE},
     redisGet : IF getTried THEN BOOLEAN ELSE {TRUE},
     redisSet : IF redis = "up" THEN BOOLEAN ELSE {TRUE}]

SetStore(st) ==
    /\ memoryAnalyses' = st.memoryAnalyses
    /\ memoryWhois' = st.memoryWhois
    /\ dbAnalyses' = st.dbAnalyses
    /\ dbWhois' = st.dbWhois
    /\ nextId' = st.nextId

\* A hit that also renews the time to live of the key it read.
AnalyzeHitRenewing(ipAddress, cached) ==
    /\ response' = [status |-> 200,
                    body |-> [cached EXCEPT !.cached = TRUE, !.source = "redis"],
                    mock |-> FALSE, fetched |-> FALSE, fresh |-> FALSE]
    /\ cache' = RedisSetex(cache, cacheKey(ipAddress), CACHE_TTL, cached, now)
    /\ UNCHANGED <<memoryAnalyses, memoryWhois, dbAnalyses, dbWhois, nextId>>

\* Lines 663-665 of POST /api/analyze: the cached value is sent back with
\* cached: true and source: "redis", and the handler returns.
AnalyzeHit(ipAddress, cached) ==
    /\ response' = [status |-> 200,
                    body |-> [cached EXCEPT !.cached = TRUE, !.source = "redis"],
                    mock |-> FALSE, fetched |-> FALSE, fresh |-> FALSE]
    /\ UNCHANGED <<memoryAnalyses, memoryWhois, dbAnalyses, dbWhois, nextId,
                   cache>>

\* POST /api/analyze, behind validateRequest(analyzeIpRequestSchema), which
\* turns an empty ipAddress away.  p is what the adapters answer and env how the database
\* and Redis calls end; both are read only on the path that reaches them.
Analyze(ipAddress, isFresh) ==
    /\ request' = [endpoint |-> "analyze", ipAddress |-> ipAddress]
    /\ IF ipAddress = "" \/ ~ValidTable[ipAddress]
       THEN /\ response' = [status |-> 400,
                            error |-> IF ipAddress = "" THEN "Validation failed"
                                      ELSE "Invalid IP address"]
            /\ UNCHANGED <<memoryAnalyses, memoryWhois, dbAnalyses, dbWhois,
                           nextId, cache>>
       ELSE \E env \in Envs(~isFresh /\ redis = "up") :
            LET cached == IF ~isFresh /\ redis = "up" /\ env.redisGet
                          THEN RedisGet(cache, cacheKey(ipAddress), now)
                          ELSE NoResult
            IN  IF cached # NoResult
                THEN AnalyzeHit(ipAddress, cached)
                ELSE /\ Cardinality(memoryAnalyses) < MaxAnalyses
                     /\ \E p \in ProviderAnswers :
                        \E f \in {FreshAnalysis(CurrentStore, cache, ipAddress,
                                                p, env, TRUE)} :
                            /\ SetStore(f.store)
                            /\ cache' = f.cache
                            /\ response' = [status |-> 200, body |-> f.result,
                                            mock |-> f.mock, fetched |-> TRUE,
                                            answers |-> p, fresh |-> isFresh,
                                            env |-> env]
    /\ UNCHANGED <<useDatabase, redis, now, classifyVars, memVars, limitVars>>

\* The rest of the loop's outcome with one more analysis in front.
BulkPrepend(rest, item, answer) ==
    [rest EXCEPT !.analyses = <<item>> \o @, !.answers = <<answer>> \o @]

\* The loop of POST /api/bulk-analyze from position i on: invalid addresses
\* were filtered out before it; a cached value is pushed as it was stored.
\* answers (not part of the program) keeps, for each analysis pushed, what the
\* adapters answered for it, NoResult when they were not called.
RECURSIVE BulkLoop(_, _, _, _, _, _)

\* analyses.push(item) and the rest of the loop.
BulkPush(st, c, ips, answers, env, i, item, answer) ==
    BulkPrepend(BulkLoop(st, c, ips, answers, env, i + 1), item, answer)

\* A fetched item: the loop goes on from what the fetch left behind.
BulkFetched(ips, answers, env, i, f) ==
    BulkPush(f.store, f.cache, ips, answers, env, i, f.result, answers[i])

\* One pass of the loop with the outcome of redis.get in cached.
BulkItem(st, c, ips, answers, env, i, cached) ==
    IF cached # NoResult
    THEN BulkPush(st, c, ips, answers, env, i, cached, NoResult)
    ELSE BulkFetched(ips, answers, env, i,
                     FreshAnalysis(st, c, ips[i], answers[i], env, FALSE))

BulkLoop(st, c, ips, answers, env, i) ==
    IF i > Len(ips)
    THEN [store |-> st, cache |-> c, analyses |-> <<>>, answers |-> <<>>]
    ELSE IF ~ValidTable[ips[i]]
    THEN BulkLoop(st, c, ips, answers, env, i + 1)
    ELSE BulkItem(st, c, ips, answers, env, i,
                  IF redis = "up" /\ env.redisGet
                  THEN RedisGet(c, cacheKey(ips[i]), now)
                  ELSE NoResult)

\* ips.filter(ip => isValidIpAddress(ip))
validIpsOf(ips) == SelectSeq(ips, LAMBDA ip : ValidTable[ip])

\* POST /api/bulk-analyze.  answers[i] is what the adapters answer for ips[i]
\* when the loop fetches it, env how the database and Redis calls end.
BulkAnalyze(ips) ==
    /\ request' = [endpoint |-> "bulk-analyze", ips |-> ips]
    /\ IF Len(validIpsOf(ips)) = 0
       THEN /\ response' = [status |-> 400,
                            error |-> "No valid IP addresses provided"]
            /\ UNCHANGED <<memoryAnalyses, memoryWhois, dbAnalyses, dbWhois,
                           nextId, cache>>
       ELSE \E env \in Envs(redis = "up" /\ cache # <<>>),
               answers \in [1..Len(ips) -> BulkAnswers] :
            \E b \in {BulkLoop(CurrentStore, cache, ips, answers, env, 1)} :
                /\ Cardinality(b.store.memoryAnalyses) <= MaxAnalyses
                /\ SetStore(b.store)
                /\ cache' = b.cache
                /\ response' = [status |-> 200,
                                body |-> [analyses |-> b.analyses,
                                          total |-> Len(validIpsOf(ips)),
                                          completed |-> Len(b.analyses)],
                                answers |-> b.answers]
    /\ UNCHANGED <<useDatabase, redis, now, classifyVars, memVars, limitVars>>

\* POST /api/clear-cache: flushdb when there is a client; flushOk = FALSE is
\* the call rejecting.
ClearCache(flushOk) ==
    /\ request' = [endpoint |-> "clear-cache"]
    /\ IF redis = "up" /\ ~flushOk
       THEN /\ response' = [status |-> 500, error |-> "Failed to clear cache"]
            /\ UNCHANGED cache
       ELSE /\ response' = [status |-> 200, body |-> [success |-> TRUE]]
            /\ cache' = IF redis = "up" THEN <<>> ELSE cache
    /\ UNCHANGED <<useDatabase, memoryAnalyses, memoryWhois, dbAnalyses, dbWhois,
                   redis, now, nextId, classifyVars, memVars, limitVars>>

\* How the database calls of a request that only reads or deletes end.
DbOutcomes == IF useDatabase THEN BOOLEAN ELSE {TRUE}

\* GET /api/analyses
GetAnalyses ==
    /\ request' = [endpoint |-> "analyses"]
    /\ \E dbOk \in DbOutcomes :
          response' = [status |-> 200,
                       body |-> getAllAnalyses(CurrentStore, useDatabase, dbOk)]
    /\ UNCHANGED <<useDatabase, memoryAnalyses, memoryWhois, dbAnalyses, dbWhois,
                   redis, cache, now, nextId, classifyVars, memVars, limitVars>>

\* GET /api/analyses/:id
GetAnalysisById(id) ==
    /\ request' = [endpoint |-> "analysis", id |-> id]
    /\ \E dbOk \in DbOutcomes :
       \E analysis \in {getAnalysis(CurrentStore, id, useDatabase, dbOk)} :
          response' =
             IF analysis = Rejected
             THEN [status |-> 500, error |-> "Failed to retrieve analysis"]
             ELSE IF analysis = NoResult
             THEN [status |-> 404, error |-> "Not found"]
             ELSE [status |-> 200,
                   body |-> [analysis |-> analysis,
                             whois |-> getWhoisByIp(CurrentStore,
                                                    analysis.ipAddress,
                                                    useDatabase, dbOk)]]
    /\ UNCHANGED <<useDatabase, memoryAnalyses, memoryWhois, dbAnalyses, dbWhois,
                   redis, cache, now, nextId, classifyVars, memVars, limitVars>>

\* DELETE /api/analyses/:id
DeleteAnalysisById(id) ==
    /\ request' = [endpoint |-> "delete", id |-> id]
    /\ \E dbOk \in DbOutcomes :
       \E d \in {deleteAnalysis(CurrentStore, id, useDatabase, dbOk)} :
          /\ SetStore(d.store)
          /\ response' =
                IF d.rejected
                THEN [status |-> 500, error |-> "Failed to delete analysis"]
                ELSE IF ~d.ret
                THEN [status |-> 404, error |-> "Not found"]
                ELSE [status |-> 200, body |-> [success |-> TRUE]]
    /\ UNCHANGED <<useDatabase, redis, cache, now, classifyVars, memVars, limitVars>>

\* GET /api/stats
GetStats ==
    /\ request' = [endpoint |-> "stats"]
    /\ \E dbOk \in DbOutcomes :
          response' = [status |-> 200,
                       body |-> getStats(CurrentStore, useDatabase, dbOk),
                       dbOk |-> dbOk]
    /\ UNCHANGED <<useDatabase, memoryAnalyses, memoryWhois, dbAnalyses, dbWhois,
                   redis, cache, now, nextId, classifyVars, memVars, limitVars>>

\* redis.on("error", ...): the client is dropped for good, and with it the
\* server's only way to the keyspace, which leaves the state.
RedisError ==
    /\ redis = "up"
    /\ redis' = "null"
    /\ cache' = <<>>
    /\ UNCHANGED <<useDatabase, memoryAnalyses, memoryWhois, dbAnalyses, dbWhois,
                   now, nextId, request, response, classifyVars, memVars, limitVars>>

\* Time passes; Redis drops the keys whose time to live has run out.
TickBy(step) ==
    /\ now + step <= MaxTime
    /\ now' = now + step
    /\ cache' = [k \in {x \in DOMAIN cache : cache[x].expiresAt > now'} |-> cache[k]]
    /\ UNCHANGED <<useDatabase, memoryAnalyses, memoryWhois, dbAnalyses, dbWhois,
                   redis, nextId, request, response, classifyVars, memVars, limitVars>>

Tick == TickBy(TickStep)

----------------------------------------------------------------------------
(* Spec: the server *)

NoRequest == [endpoint |-> "none"]
NoResponse == [status |-> 0]

\* The state after registerRoutes: connect() has decided useDatabase, the
\* stores are empty and the Redis client exists; MemStorage's constructor has
\* made its cache an empty Map.
ServerStart ==
    /\ memoryAnalyses = {}
    /\ memoryWhois = <<>>
    /\ dbAnalyses = {}
    /\ dbWhois = {}
    /\ redis = "up"
    /\ cache = <<>>
    /\ now = 0
    /\ nextId = 1
    /\ request = NoRequest
    /\ response = NoResponse
    /\ memCache = <<>>
    /\ clock = 0
    /\ analyses = {}
    /\ requestCounts = <<>>

ClassifyIdle ==
    /\ input = NoResult
    /\ result = NoResult
    /\ pc = "idle"

Init ==
    /\ useDatabase \in BOOLEAN
    /\ ServerStart
    /\ ClassifyIdle

Next ==
    \/ \E ip \in RequestIps, isFresh \in BOOLEAN : Analyze(ip, isFresh)
    \/ \E ips \in BulkIpLists : BulkAnalyze(ips)
    \/ \E flushOk \in BOOLEAN : ClearCache(flushOk)
    \/ RedisError
    \/ Tick

Spec == Init /\ [][Next]_vars

\* The server seen through one address, at instants half a time to live
\* apart: requests for the address (and a malformed one), cache flushes,
\* the loss of the Redis client.
CacheIp == "8.8.8.8"

HalfTick == TickBy(CacheTickStep)

NextCache ==
    \/ \E ip \in {CacheIp} \cup MalformedIps, isFresh \in BOOLEAN :
          Analyze(ip, isFresh)
    \/ \E ips \in {<<CacheIp>>} : BulkAnalyze(ips)
    \/ \E flushOk \in BOOLEAN : ClearCache(flushOk)
    \/ RedisError
    \/ HalfTick

----------------------------------------------------------------------------
(* SpecClassify: one call of generateRealAnalysis, or one evaluation of the  *)
(* handler's analysisData, on bounded inputs                                 *)

\* The server with its storage routes, seen through one address.
MaxIds == 7

NextRoutes ==
    \/ \E isFresh \in BOOLEAN : Analyze(CacheIp, isFresh)
    \/ GetAnalyses
    \/ \E id \in 1..Min(nextId, MaxIds) : GetAnalysisById(id)
    \/ \E id \in 1..Min(nextId, MaxIds) : DeleteAnalysisById(id)
    \/ GetStats


----------------------------------------------------------------------------
(* SpecRace: two POST /api/analyze requests for one address, the handler    *)
(* cut at its awaits                                                         *)

Procs == {1, 2}

\* The setex calls that have been made so far.
WritesSoFar == Cardinality({q \in Procs : Has(result[q], "wroteAs")})

InitRace ==
    /\ input \in [Procs -> [ipAddress : {CacheIp}, isFresh : BOOLEAN]]
    /\ result = [p \in Procs |-> NoResult]
    /\ pc = [p \in Procs |-> "start"]
    /\ useDatabase \in BOOLEAN
    /\ ServerStart

\* Lines 652-669: up to the answer of redis.get.  A hit is answered at once.
RaceRead(p) ==
    /\ pc[p] = "start"
    /\ \E env \in Envs(~input[p].isFresh /\ redis = "up") :
       \E cached \in {IF ~input[p].isFresh /\ redis = "up" /\ env.redisGet
                      THEN RedisGet(cache, cacheKey(input[p].ipAddress), now)
                      ELSE NoResult} :
          IF cached # NoResult
          THEN /\ pc' = [pc EXCEPT ![p] = "done"]
               /\ result' = [result EXCEPT ![p] =
                                [sent |-> [cached EXCEPT !.cached = TRUE,
                                                         !.source = "redis"]]]
          ELSE /\ pc' = [pc EXCEPT ![p] = "fetch"]
               /\ result' = [result EXCEPT ![p] =
                                [readCache |-> ~input[p].isFresh /\ redis = "up",
                                 writesAtRead |-> WritesSoFar]]
    /\ UNCHANGED <<input, serverVars, memVars, limitVars>>

\* Lines 672-709: the adapters answer and analysisData is computed.
RaceFetch(p) ==
    /\ pc[p] = "fetch"
    /\ \E answers \in ProviderAnswers :
          result' = [result EXCEPT ![p] =
                        @ @@ [data |-> AnalysisDataTable[input[p].ipAddress,
                                                         answers, now]]]
    /\ pc' = [pc EXCEPT ![p] = "createAnalysis"]
    /\ UNCHANGED <<input, serverVars, memVars, limitVars>>

\* Line 711: storage.createAnalysis.
RaceCreateAnalysis(p) ==
    /\ pc[p] = "createAnalysis"
    /\ \E dbOk \in DbOutcomes :
       \E a \in {createAnalysis(CurrentStore, result[p].data, useDatabase, dbOk)} :
          /\ SetStore(a.store)
          /\ result' = [result EXCEPT ![p] = @ @@ [analysis |-> a.ret]]
    /\ pc' = [pc EXCEPT ![p] = "createWhoisRecord"]
    /\ UNCHANGED <<input, useDatabase, redis, cache, now, request, response,
                   memVars, limitVars>>

\* Lines 712-730: storage.createWhoisRecord.
RaceCreateWhois(p) ==
    /\ pc[p] = "createWhoisRecord"
    /\ \E dbOk \in DbOutcomes :
       \E w \in {createWhoisRecord(CurrentStore,
                                   WhoisInsert(input[p].ipAddress,
                                               result[p].data, now),
                                   useDatabase, dbOk)} :
          /\ SetStore(w.store)
          /\ result' = [result EXCEPT ![p] = @ @@ [whois |-> w.ret]]
    /\ pc' = [pc EXCEPT ![p] = "setex"]
    /\ UNCHANGED <<input, useDatabase, redis, cache, now, request, response,
                   memVars, limitVars>>

\* Lines 732-743: the result, the setex when there is a client (setOk =
\* FALSE is the call rejecting), and res.json.  wroteAs numbers the setex
\* calls in the order they are made.
RaceSetex(p) ==
    /\ pc[p] = "setex"
    /\ \E setOk \in (IF redis = "up" THEN BOOLEAN ELSE {FALSE}) :
       \E res \in {[analysis |-> result[p].analysis, whois |-> result[p].whois,
                    cached |-> FALSE, source |-> "real"]} :
          /\ cache' = IF redis = "up" /\ setOk
                      THEN RedisSetex(cache, cacheKey(input[p].ipAddress),
                                      CACHE_TTL, res, now)
                      ELSE cache
          /\ result' = [result EXCEPT ![p] =
                           @ @@ [sent |-> res, setOk |-> setOk]
                             @@ (IF redis = "up"
                                 THEN [wroteAs |-> WritesSoFar + 1]
                                 ELSE <<>>)]
    /\ pc' = [pc EXCEPT ![p] = "done"]
    /\ UNCHANGED <<input, useDatabase, memoryAnalyses, memoryWhois, dbAnalyses,
                   dbWhois, redis, now, nextId, request, response, memVars, limitVars>>

\* redis.on("error", ...) while requests are under way.
RaceRedisError ==
    /\ redis = "up"
    /\ redis' = "null"
    /\ cache' = <<>>
    /\ UNCHANGED <<useDatabase, memoryAnalyses, memoryWhois, dbAnalyses, dbWhois,
                   now, nextId, request, response, classifyVars, memVars, limitVars>>

NextRace ==
    \/ \E p \in Procs : RaceRead(p)
    \/ \E p \in Procs : RaceFetch(p)
    \/ \E p \in Procs : RaceCreateAnalysis(p)
    \/ \E p \in Procs : RaceCreateWhois(p)
    \/ \E p \in Procs : RaceSetex(p)
    \/ RaceRedisError

SpecRace == InitRace /\ [][NextRace]_vars

----------------------------------------------------------------------------
(* routes.ts: rateLimit *)

RateLimitMax == 50        \* record.count >= 50
RateLimitWindow == 60000  \* resetAt: now + 60000

\* req.ip of the requests.
Clients == {"10.0.0.1", "10.0.0.2"}

\* The instants requests arrive at: the start of a window, its last
\* millisecond, the first of the next.
LimitInstants == {0, RateLimitWindow, RateLimitWindow + 1}

\* rateLimit with the test count > 50.
rateLimitOffByOne(counts, ip, at) ==
    IF ip \notin DOMAIN counts \/ at > counts[ip].resetAt
    THEN [counts |-> (ip :> [count |-> 1, resetAt |-> at + RateLimitWindow])
                     @@ counts,
          next |-> TRUE, status |-> 200]
    ELSE IF counts[ip].count > RateLimitMax
    THEN [counts |-> counts, next |-> FALSE, status |-> 429]
    ELSE [counts |-> [counts EXCEPT ![ip].count = @ + 1],
          next |-> TRUE, status |-> 200]

\* rateLimit(req, res, next): the Map after the call, whether next() was
\* called, and the status of the answer it sent when it was not.
rateLimit(counts, ip, at) ==
    IF ip \notin DOMAIN counts \/ at > counts[ip].resetAt
    THEN [counts |-> (ip :> [count |-> 1, resetAt |-> at + RateLimitWindow])
                     @@ counts,
          next |-> TRUE, status |-> 200]
    ELSE IF counts[ip].count >= RateLimitMax
    THEN [counts |-> counts, next |-> FALSE, status |-> 429]
    ELSE [counts |-> [counts EXCEPT ![ip].count = @ + 1],
          next |-> TRUE, status |-> 200]

\* A request of client ip reaches the middleware.  result.through (not part
\* of the program) counts, per client, the requests let through since the
\* client's window was opened.
RateLimit(ip) ==
    /\ \E r \in {rateLimit(requestCounts, ip, clock)} :
          /\ requestCounts' = r.counts
          /\ result' =
                [next |-> r.next, status |-> r.status,
                 opened |-> ip \notin DOMAIN requestCounts
                            \/ clock > requestCounts[ip].resetAt,
                 through |->
                    IF ~r.next THEN result.through
                    ELSE IF ip \notin DOMAIN requestCounts
                            \/ clock > requestCounts[ip].resetAt
                    THEN (ip :> 1) @@ result.through
                    ELSE [result.through EXCEPT ![ip] = @ + 1]]
    /\ input' = [ip |-> ip]
    /\ pc' = "rateLimit"
    /\ UNCHANGED <<memVars, serverVars>>

\* Date.now() moves on between requests.
LimitClockAdvance ==
    /\ \E t \in LimitInstants : t > clock /\ clock' = t
    /\ UNCHANGED <<memCache, analyses, requestCounts, classifyVars, serverVars>>

InitRateLimit ==
    /\ input = NoResult
    /\ result = [next |-> TRUE, status |-> 200, opened |-> FALSE, through |-> <<>>]
    /\ pc = "start"
    /\ useDatabase = FALSE
    /\ ServerStart

NextRateLimit ==
    \/ \E ip \in Clients : RateLimit(ip)
    \/ LimitClockAdvance

SpecRateLimit == InitRateLimit /\ [][NextRateLimit]_vars

InitClassify ==
    /\ input \in [ip : {"8.8.8.8"},
                  geoData : GeoSamples,
                  abuseData : AbuseSamples,
                  pyProxyData : PyProxySamples,
                  apiipData : ApiipSamples]
    /\ result = NoResult
    /\ pc = "start"
    /\ useDatabase = FALSE
    /\ ServerStart

\* generateRealAnalysis(ip, geoData, abuseData, pyProxyData, apiipData)
Classify ==
    /\ pc = "start"
    /\ result' = generateRealAnalysis(input.ip, input.geoData, input.abuseData,
                                      input.pyProxyData, input.apiipData,
                                      ClassifyTime)
    /\ pc' = "generateRealAnalysis"
    /\ UNCHANGED <<input, serverVars, memVars, limitVars>>

\* The analysisData POST /api/analyze computes from the adapters' answers.
ClassifyAnalyze ==
    /\ pc = "start"
    /\ result' = analysisData(input.ip, input.geoData, input.abuseData,
                              input.pyProxyData, input.apiipData, ClassifyTime)
    /\ pc' = "analyze"
    /\ UNCHANGED <<input, serverVars, memVars, limitVars>>

NextClassify == Classify \/ ClassifyAnalyze

SpecClassify == InitClassify /\ [][NextClassify]_vars

\* generateRealAnalysis with the organization set to each entry of
\* VPN_PROVIDERS in turn, the isp absent or given.
VpnListIsps == {"NordVPN Hosting", "Comcast Cable", "UFO VPN Ltd"}

InitVpnList ==
    /\ input \in [ip : {"8.8.8.8"},
                  geoData : {[org |-> VPN_PROVIDERS[i]] :
                                i \in 1..Len(VPN_PROVIDERS)}
                            \cup {[org |-> VPN_PROVIDERS[i], isp |-> s] :
                                    i \in 1..Len(VPN_PROVIDERS), s \in VpnListIsps},
                  abuseData : {Null, [isTor |-> JsTrue]},
                  pyProxyData : {Null},
                  apiipData : {Null}]
    /\ result = NoResult
    /\ pc = "start"
    /\ useDatabase = FALSE
    /\ ServerStart

SpecVpnList == InitVpnList /\ [][NextClassify]_vars

----------------------------------------------------------------------------
(* storage.ts: the cache of MemStorage *)

\* private readonly CACHE_TTL = 5 * 60 * 1000
MemStorage_CACHE_TTL == 300000

\* The instants the clock is looked at: around one time to live after 0 and 1.
ClockInstants ==
    {0, 1, MemStorage_CACHE_TTL - 1, MemStorage_CACHE_TTL,
     MemStorage_CACHE_TTL + 1, MemStorage_CACHE_TTL + 2}

\* The (analysis, whois) pairs given to setCachedResult for an address.
MemResults(ip) ==
    {[analysis |-> [id |-> 1, ipAddress |-> ip, riskScore |-> 15], whois |-> Null],
     [analysis |-> [id |-> 2, ipAddress |-> ip, riskScore |-> 75],
      whois |-> [id |-> 3, ipAddress |-> ip]]}

\* getCachedResult with at least: an entry is dropped once its age reaches
\* the time to live.
getCachedResultAtLeast(c, ipAddress, at) ==
    IF ipAddress \notin DOMAIN c THEN [cache |-> c, ret |-> Null]
    ELSE IF at - c[ipAddress].timestamp >= MemStorage_CACHE_TTL
    THEN [cache |-> [k \in DOMAIN c \ {ipAddress} |-> c[k]], ret |-> Null]
    ELSE [cache |-> c,
          ret |-> [analysis |-> c[ipAddress].analysis, whois |-> c[ipAddress].whois]]

\* MemStorage.getCachedResult: the Map after the call and what it returns.
getCachedResult(c, ipAddress, at) ==
    IF ipAddress \notin DOMAIN c THEN [cache |-> c, ret |-> Null]
    ELSE IF at - c[ipAddress].timestamp > MemStorage_CACHE_TTL
    THEN [cache |-> [k \in DOMAIN c \ {ipAddress} |-> c[k]], ret |-> Null]
    ELSE [cache |-> c,
          ret |-> [analysis |-> c[ipAddress].analysis, whois |-> c[ipAddress].whois]]

\* MemStorage.setCachedResult: the Map after the call.
setCachedResult(c, ipAddress, analysis, whois, at) ==
    (ipAddress :> [analysis |-> analysis, whois |-> whois, timestamp |-> at]) @@ c

GetCachedResult(ipAddress) ==
    /\ pc' = "getCachedResult"
    /\ input' = [ipAddress |-> ipAddress]
    /\ result' = getCachedResult(memCache, ipAddress, clock).ret
    /\ memCache' = getCachedResult(memCache, ipAddress, clock).cache
    /\ UNCHANGED <<clock, analyses, serverVars, limitVars>>

SetCachedResult(ipAddress, r) ==
    /\ pc' = "setCachedResult"
    /\ input' = [ipAddress |-> ipAddress, analysis |-> r.analysis, whois |-> r.whois]
    /\ result' = NoResult
    /\ memCache' = setCachedResult(memCache, ipAddress, r.analysis, r.whois, clock)
    /\ UNCHANGED <<clock, analyses, serverVars, limitVars>>

\* Date.now() moves on to a later instant.
ClockAdvance ==
    /\ \E t \in ClockInstants : t > clock /\ clock' = t
    /\ UNCHANGED <<memCache, analyses, classifyVars, serverVars, limitVars>>

InitMem ==
    /\ input = NoResult
    /\ result = NoResult
    /\ pc = "MemStorage"
    /\ useDatabase = FALSE
    /\ ServerStart

NextMem ==
    \/ \E ip \in ValidIps : GetCachedResult(ip)
    \/ \E ip \in ValidIps : \E r \in MemResults(ip) : SetCachedResult(ip, r)
    \/ ClockAdvance

\* The two caches of the repository, each on its own: the Redis cache of the
\* routes and the Map of MemStorage.
InitCaches == Init \/ InitMem

NextCaches ==
    \/ pc = "idle" /\ NextCache
    \/ pc # "idle" /\ NextMem

SpecCaches == InitCaches /\ [][NextCaches]_vars

\* MemStorage's analyses: the records createAnalysis is called with.
MemInserts ==
    {MockAnalysis(CacheIp, 0),
     generateRealAnalysis(CacheIp, [org |-> "NordVPN International"], Null, Null,
                          Null, 0),
     generateRealAnalysis(CacheIp, [org |-> "Comcast Cable"],
                          [isTor |-> JsTrue], Null, Null, 0)}

MaxMemAnalyses == 3     \* MemStorage.createAnalysis calls in one behaviour

\* MemStorage.createAnalysis
MemCreateAnalysis(insertAnalysis) ==
    /\ nextId <= MaxMemAnalyses
    /\ pc' = "createAnalysis"
    /\ input' = insertAnalysis
    /\ result' = insertAnalysis @@ [id |-> nextId]
    /\ analyses' = analyses \cup {insertAnalysis @@ [id |-> nextId]}
    /\ nextId' = nextId + 1
    /\ UNCHANGED <<memCache, clock, useDatabase, memoryAnalyses, memoryWhois,
                   dbAnalyses, dbWhois, redis, cache, now, request, response,
                   limitVars>>

\* MemStorage.getAnalysis
MemGetAnalysis(id) ==
    /\ pc' = "getAnalysis"
    /\ input' = [id |-> id]
    /\ result' = IF \E a \in analyses : a.id = id
                 THEN CHOOSE a \in analyses : a.id = id
                 ELSE NoResult
    /\ UNCHANGED <<memVars, serverVars, limitVars>>

\* MemStorage.getAllAnalyses
MemGetAllAnalyses ==
    /\ pc' = "getAllAnalyses"
    /\ input' = NoResult
    /\ result' = [list |-> SortedByAnalyzedAtDesc(analyses)]
    /\ UNCHANGED <<memVars, serverVars, limitVars>>

\* MemStorage.deleteAnalysis: Map.delete, true when the id was a key.
MemDeleteAnalysis(id) ==
    /\ pc' = "deleteAnalysis"
    /\ input' = [id |-> id]
    /\ result' = [deleted |-> \E a \in analyses : a.id = id]
    /\ analyses' = {a \in analyses : a.id # id}
    /\ UNCHANGED <<memCache, clock, serverVars, limitVars>>

\* MemStorage.getStats
MemGetStats ==
    /\ pc' = "getStats"
    /\ input' = NoResult
    /\ result' =
          [totalScans |-> Cardinality(analyses),
           threatsDetected |->
               Cardinality({a \in analyses : a.isVpn \/ a.isProxy \/ a.isTor}),
           cleanIps |->
               Cardinality({a \in analyses : ~a.isVpn /\ ~a.isProxy /\ ~a.isTor}),
           vpnsDetected |-> Cardinality({a \in analyses : a.isVpn})]
    /\ UNCHANGED <<memVars, serverVars, limitVars>>

NextMemStore ==
    \/ \E a \in MemInserts : MemCreateAnalysis(a)
    \/ \E id \in 1..Min(nextId, MaxIds) : MemGetAnalysis(id)
    \/ MemGetAllAnalyses
    \/ \E id \in 1..Min(nextId, MaxIds) : MemDeleteAnalysis(id)
    \/ MemGetStats

\* The two storages of the repository, each on its own: MongoStorage behind
\* the routes, and MemStorage.
InitStorage == Init \/ InitMem

NextStorage ==
    \/ pc = "idle" /\ NextRoutes
    \/ pc # "idle" /\ NextMemStore

SpecStorage == InitStorage /\ [][NextStorage]_vars

----------------------------------------------------------------------------
(* routes.ts: the provider adapters *)

\* How one HTTP exchange with a provider ends.  missingKey: the credential
\* the adapter needs is not configured; networkError: fetch rejects; non2xx:
\* res.ok is false; unparsable: res.json() rejects; jsonNull: the body is the
\* JSON value null; ok: the body is the object in the field body.
FailureKinds == {"missingKey", "networkError", "non2xx", "unparsable", "jsonNull"}

Failures(kinds) == {[kind |-> k] : k \in kinds}

Ok(body) == [kind |-> "ok", body |-> body]

\* The try block without its catch: a rejected fetch or res.json(), or a
\* property read on null, rejects the adapter's promise.
FetchJsonUncaught(o) ==
    IF o.kind = "non2xx" THEN Null
    ELSE IF o.kind = "ok" THEN o.body
    ELSE Rejected

\* The try block shared by the adapters: fetch, `if (!res.ok) return null`,
\* res.json(), a console.log that reads properties of the body; the catch
\* returns null.
FetchJson(o) ==
    IF o.kind = "networkError" THEN Null
    ELSE IF o.kind = "non2xx" THEN Null
    ELSE IF o.kind = "unparsable" THEN Null
    ELSE IF o.kind = "jsonNull" THEN Null
    ELSE o.body

\* data.f || null
FieldOrNull(data, f) ==
    IF data = Null \/ data = Rejected THEN data
    ELSE IF Has(data, f) THEN data[f] ELSE Null

fetchIPGeolocation(o) == FetchJson(o)

fetchPyProxy(o) == IF o.kind = "missingKey" THEN Null ELSE FetchJson(o)

fetchAPIIP(o) == IF o.kind = "missingKey" THEN Null ELSE FetchJson(o)

fetchWhoisXML(o) ==
    IF o.kind = "missingKey" THEN Null ELSE FieldOrNull(FetchJson(o), "result")

fetchAbuseIPDB(o) ==
    IF o.kind = "missingKey" THEN Null ELSE FieldOrNull(FetchJson(o), "data")

\* The exchanges of one request, adapter by adapter.  The token of
\* fetchIPGeolocation is part of its URL, so no credential can be missing.
GeoOutcomes ==
    Failures(FailureKinds \ {"missingKey"})
    \cup {Ok([org |-> "NordVPN International", country |-> "US"])}

AbuseOutcomes ==
    Failures(FailureKinds)
    \cup {Ok([data |-> [isTor |-> JsTrue, abuseConfidenceScore |-> 100,
                        totalReports |-> 12]]),
          Ok([errors |-> "quota"])}

PyProxyOutcomes == Failures(FailureKinds) \cup {Ok([is_proxy |-> JsTrue])}

ApiipOutcomes ==
    Failures(FailureKinds) \cup {Ok([is_vpn |-> JsStrTrue, city |-> "Pune"])}

WhoisOutcomes ==
    Failures(FailureKinds)
    \cup {Ok([result |-> [organization |-> "NordVPN"]])}

\* Promise.all of the five adapters.
FetchAll(o) ==
    [geoData |-> fetchIPGeolocation(o.geo),
     abuseData |-> fetchAbuseIPDB(o.abuse),
     pyProxyData |-> fetchPyProxy(o.pyProxy),
     apiipData |-> fetchAPIIP(o.apiip),
     whoisData |-> fetchWhoisXML(o.whois)]

InitAdapters ==
    /\ input \in [ip : {"8.8.8.8"}, geo : GeoOutcomes, abuse : AbuseOutcomes,
                  pyProxy : PyProxyOutcomes, apiip : ApiipOutcomes,
                  whois : WhoisOutcomes]
    /\ result = NoResult
    /\ pc = "start"
    /\ useDatabase = FALSE
    /\ ServerStart

\* Lines 672-678 of POST /api/analyze.
Fetch ==
    /\ pc = "start"
    /\ result' = FetchAll(input)
    /\ pc' = "fetched"
    /\ UNCHANGED <<input, serverVars, memVars, limitVars>>

\* Lines 680-747: the analysis of what was fetched; a rejection of the
\* Promise.all lands in the handler's catch.
Answer ==
    /\ pc = "fetched"
    /\ pc' = "answered"
    /\ request' = [endpoint |-> "analyze", ipAddress |-> input.ip]
    /\ response' =
          IF \E f \in DOMAIN result : result[f] = Rejected
          THEN [status |-> 500, error |-> "Failed to analyze IP"]
          ELSE [status |-> 200,
                analysis |-> analysisData(input.ip, result.geoData,
                                          result.abuseData, result.pyProxyData,
                                          result.apiipData, ClassifyTime)]
    /\ UNCHANGED <<input, result, useDatabase, memoryAnalyses, memoryWhois,
                   dbAnalyses, dbWhois, redis, cache, now, nextId, memVars, limitVars>>

NextAdapters == Fetch \/ Answer

SpecAdapters == InitAdapters /\ [][NextAdapters]_vars

----------------------------------------------------------------------------
(* generateRealAnalysis called from a running server *)

MaxCalls == 2

\* Provider records the calls are made with.
CallInputs ==
    [ip : {CacheIp},
     geoData : {[org |-> "NordVPN International"],
                [org |-> "Amazon AWS", isp |-> "Squid Proxy Net"]},
     abuseData : {Null, [isTor |-> JsTrue, abuseConfidenceScore |-> 55,
                         totalReports |-> 4]},
     pyProxyData : {Null},
     apiipData : {Null}]

\* What a call could read besides its arguments: the cached keys, the
\* number of records stored so far, the clock.
Surroundings == [cached |-> DOMAIN cache, stored |-> nextId, at |-> now]

InitCalls ==
    /\ input \in CallInputs
    /\ result = <<>>
    /\ pc = "calls"
    /\ useDatabase = FALSE
    /\ ServerStart

\* A call whose score looks at the cache.
CallReadingCache ==
    /\ Len(result) < MaxCalls
    /\ \E a \in {generateRealAnalysis(input.ip, input.geoData, input.abuseData,
                                      input.pyProxyData, input.apiipData, now)} :
          result' = Append(result,
                           [analysis |-> IF cache = <<>> THEN a
                                         ELSE [a EXCEPT !.riskScore = 0],
                            seen |-> Surroundings])
    /\ UNCHANGED <<input, pc, serverVars, memVars, limitVars>>

\* One call of generateRealAnalysis: it reads its arguments, the three
\* constant lists and new Date().
Call ==
    /\ Len(result) < MaxCalls
    /\ result' = Append(result,
                        [analysis |-> generateRealAnalysis(
                                          input.ip, input.geoData, input.abuseData,
                                          input.pyProxyData, input.apiipData, now),
                         seen |-> Surroundings])
    /\ UNCHANGED <<input, pc, serverVars, memVars, limitVars>>

NextCalls ==
    \/ Call
    \/ Analyze(CacheIp, FALSE)
    \/ Tick

SpecCalls == InitCalls /\ [][NextCalls]_vars

----------------------------------------------------------------------------
(* Properties of the classification *)

Classified == pc = "generateRealAnalysis"

\* C1: every analysis POST /api/analyze produces, from provider answers or
\* from the fallback, has an integer riskScore between 0 and 100 and the
\* threatLevel of that score: low below 25, medium from 25 to 49, high from
\* 50 to 74, critical from 75 to 100.
C1_ScoreRangeAndLevel ==
    pc \in {"generateRealAnalysis", "analyze"} =>
        /\ result.riskScore \in 0..100
        /\ result.riskScore < 25 => result.threatLevel = "low"
        /\ result.riskScore \in 25..49 => result.threatLevel = "medium"
        /\ result.riskScore \in 50..74 => result.threatLevel = "high"
        /\ result.riskScore >= 75 => result.threatLevel = "critical"

\* An abuse score above 100 was given and the result is capped at 100.
C1_Witness ==
    /\ pc = "analyze"
    /\ FlagIs(input.abuseData, "abuseConfidenceScore", 130)
    /\ input.geoData # Null
    /\ result.riskScore = 100
    /\ result.threatLevel = "critical"

\* C2: whenever generateRealAnalysis returns isTor = true, riskScore is 95 and
\* threatLevel is critical, whatever the other inputs are.
C2_TorScores95 ==
    (Classified /\ result.isTor) =>
        /\ result.riskScore = 95
        /\ result.threatLevel = "critical"

\* The inputs of the NordVPN example: organization "NordVPN International",
\* no isp from the provider, no proxy flag, no abuse data (so no Tor flag).
C3_Case ==
    /\ Classified
    /\ input.geoData = [org |-> "NordVPN International"]
    /\ input.abuseData = Null
    /\ ~FlagIs(input.pyProxyData, "is_proxy", JsTrue)
    /\ ~FlagIs(input.apiipData, "is_proxy", JsStrTrue)

\* C3 as stated: the NordVPN example returns isVpn = true, vpnProvider
\* "NordVPN", riskScore 70 and threatLevel high.
C3_NordVpn70High ==
    C3_Case =>
        /\ result.isVpn
        /\ result.vpnProvider = "NordVPN"
        /\ result.riskScore = 70
        /\ result.threatLevel = "high"

\* C3: the NordVPN example returns isVpn = true, vpnProvider "NordVPN",
\* riskScore 75 and threatLevel critical.
C3_NordVpn75Critical ==
    C3_Case =>
        /\ result.isVpn
        /\ result.vpnProvider = "NordVPN"
        /\ result.riskScore = 75
        /\ result.threatLevel = "critical"

C3_Witness ==
    C3_Case /\ result.isVpn /\ result.riskScore = 75 /\ input.pyProxyData = Null

\* The inputs of the datacenter example: organization "Amazon AWS", no
\* VPN, proxy or Tor flag from any provider, abuseConfidenceScore 40 and no
\* more than three reports.
C4_Case ==
    /\ Classified
    /\ input.geoData = [org |-> "Amazon AWS"]
    /\ input.pyProxyData = Null
    /\ ~FlagIs(input.apiipData, "is_vpn", JsStrTrue)
    /\ ~FlagIs(input.apiipData, "is_proxy", JsStrTrue)
    /\ FlagIs(input.abuseData, "abuseConfidenceScore", 40)
    /\ ~Has(input.abuseData, "isTor")
    /\ ~Has(input.abuseData, "usageType")
    /\ Has(input.abuseData, "totalReports") => input.abuseData.totalReports <= 3

\* C4 as stated: the datacenter example returns isDatacenter = true,
\* isVpn = false, riskScore 36 and threatLevel medium.
C4_Datacenter36 ==
    C4_Case =>
        /\ result.isDatacenter
        /\ ~result.isVpn
        /\ result.riskScore = 36
        /\ result.threatLevel = "medium"

\* C4: the datacenter example returns isDatacenter = true, isVpn = false,
\* riskScore 45 (the larger of the datacenter score 45 and round(40 * 0.9))
\* and threatLevel medium.
C4_Datacenter45 ==
    C4_Case =>
        /\ result.isDatacenter
        /\ ~result.isVpn
        /\ result.riskScore = 45
        /\ result.threatLevel = "medium"

C4_Witness ==
    C4_Case /\ Has(input.abuseData, "totalReports") /\ result.riskScore = 45

\* The organization is exactly the i-th entry of VPN_PROVIDERS.
C5_OrgIsEntry(i) ==
    /\ Classified
    /\ input.geoData # Null
    /\ Has(input.geoData, "org")
    /\ input.geoData.org = VPN_PROVIDERS[i]

\* Some entry listed before the i-th occurs, ignoring case, in the isp text.
C5_EarlierEntryInIsp(i) ==
    \E j \in 1..(i - 1) :
        includes(toLowerCase(result.isp), toLowerCase(VPN_PROVIDERS[j]))

\* C5 as stated: for every entry E of VPN_PROVIDERS, an organization equal
\* to E gives isVpn = true and vpnProvider = E.
C5_EntryNamesItself ==
    \A i \in 1..Len(VPN_PROVIDERS) :
        C5_OrgIsEntry(i) =>
            result.isVpn /\ result.vpnProvider = VPN_PROVIDERS[i]

\* C5: for every entry E of VPN_PROVIDERS, an organization equal to E gives
\* isVpn = true, and vpnProvider = E exactly when the isp text contains no
\* entry listed before E; when the provider gives no isp (the isp is then
\* taken from the organization) vpnProvider = E.
C5_EntryNamesItselfUnlessEarlier ==
    \A i \in 1..Len(VPN_PROVIDERS) :
        C5_OrgIsEntry(i) =>
            /\ result.isVpn
            /\ result.vpnProvider = VPN_PROVIDERS[i] <=> ~C5_EarlierEntryInIsp(i)
            /\ ~Has(input.geoData, "isp") => result.vpnProvider = VPN_PROVIDERS[i]
            /\ C5_EarlierEntryInIsp(i) =>
                  \E j \in 1..(i - 1) : result.vpnProvider = VPN_PROVIDERS[j]

\* "Turbo VPN" as organization also contains the later entry "turbo".
C5_Witness ==
    /\ Classified
    /\ input.geoData = [org |-> "Turbo VPN"]
    /\ result.isVpn
    /\ result.vpnProvider = "Turbo VPN"

\* The indices of the entries of a list that occur, ignoring case, in the
\* organization or in the isp of the result.
C6_Hits(lowerList) ==
    LET orgLower == toLowerCase(result.organization)
        ispLower == toLowerCase(result.isp)
    IN  {i \in 1..Len(lowerList) :
            includes(orgLower, lowerList[i]) \/ includes(ispLower, lowerList[i])}

C6_VpnHits == C6_Hits(VPN_PROVIDERS_LOWER)

C6_HostingHits == C6_Hits(VPN_HOSTING_PROVIDERS_LOWER)

\* The provider is the entry of the list at the least of the indices.
C6_IsFirstOf(list, hits) ==
    \E i \in hits :
        /\ result.vpnProvider = list[i]
        /\ \A j \in hits : i <= j

\* C6 as stated: when isVpn is true vpnProvider is the first matching entry
\* of the VPN list, or else of the VPN-hosting list; when isVpn is false
\* vpnProvider is null.
C6_ProviderWheneverVpn ==
    Classified =>
        /\ result.isVpn =>
              IF C6_VpnHits # {} THEN C6_IsFirstOf(VPN_PROVIDERS, C6_VpnHits)
              ELSE C6_IsFirstOf(VPN_HOSTING_PROVIDERS, C6_HostingHits)
        /\ ~result.isVpn => result.vpnProvider = NullStr

\* C6: vpnProvider is the first matching entry of the VPN list if one
\* matches, or else the first matching entry of the VPN-hosting list if one
\* matches, and null when no entry of either list matches, which includes
\* every result with isVpn false; a matching entry always gives isVpn true.
C6_ProviderWheneverListed ==
    Classified =>
        /\ C6_VpnHits # {} => C6_IsFirstOf(VPN_PROVIDERS, C6_VpnHits)
        /\ (C6_VpnHits = {} /\ C6_HostingHits # {}) =>
              C6_IsFirstOf(VPN_HOSTING_PROVIDERS, C6_HostingHits)
        /\ (C6_VpnHits = {} /\ C6_HostingHits = {}) =>
              result.vpnProvider = NullStr
        /\ ~result.isVpn => result.vpnProvider = NullStr
        /\ result.vpnProvider # NullStr => result.isVpn

\* Both lists match and the VPN list wins.
C6_Witness ==
    /\ Classified
    /\ C6_VpnHits # {}
    /\ C6_HostingHits # {}
    /\ result.vpnProvider = "NordVPN"
    /\ result.isVpn

\* C7: isTor is true exactly when the abuse provider answered with isTor
\* strictly equal to true; nothing else (organization or isp text, the other
\* providers' flags, a string "true") sets it.
C7_TorOnlyFromAbuseFlag ==
    Classified =>
        (result.isTor <=>
            (input.abuseData # Null /\ Has(input.abuseData, "isTor")
                /\ input.abuseData.isTor = JsTrue))

\* A Tor flag with nothing else detected.
C7_Witness ==
    /\ Classified
    /\ result.isTor
    /\ ~result.isVpn
    /\ ~result.isProxy
    /\ input.geoData # Null

----------------------------------------------------------------------------
(* Properties of the server *)

\* The record is the literal of the mock branch, told by its placeholder
\* organization and asn.
IsMockFallback(a) ==
    a.organization = "Unknown Organization" /\ a.asn = "AS0000"

\* The detections and the score of an analysis.
Detection(a) ==
    <<a.isVpn, a.isProxy, a.isTor, a.isDatacenter, a.riskScore, a.threatLevel>>

\* The last request was POST /api/analyze and it fetched from the adapters.
AnalyzeFetched ==
    /\ request.endpoint = "analyze"
    /\ response.status = 200
    /\ response.fetched

\* C8: POST /api/analyze produces the mock fallback record only when every
\* adapter (geolocation, AbuseIPDB, PyProxy, APIIP) returned null.
C8_MockOnlyWhenAllNull ==
    (AnalyzeFetched /\ IsMockFallback(response.body.analysis)) =>
        response.answers = AllNullAnswers

\* C9: the mock fallback is deterministic per IP and depends on the IP: mock
\* analyses of one address agree in detections and score, and once every
\* address has a mock analysis, two of them differ in detections or score.
C9_MockDependsOnIp ==
    LET mocks == {a \in memoryAnalyses : IsMockFallback(a)}
    IN  /\ \A a, b \in mocks :
              a.ipAddress = b.ipAddress => Detection(a) = Detection(b)
        /\ (\A ip \in ValidIps : \E a \in mocks : a.ipAddress = ip) =>
              \E a, b \in mocks : Detection(a) # Detection(b)

\* C10: when every adapter returns null for a valid address the request
\* succeeds with the mock fallback analysis, in POST /api/analyze and for
\* each item of POST /api/bulk-analyze.
C10_AllNullGivesMock ==
    /\ (request.endpoint = "analyze" /\ ValidTable[request.ipAddress]) =>
          response.status = 200
    /\ (AnalyzeFetched /\ response.answers = AllNullAnswers) =>
          IsMockFallback(response.body.analysis)
    /\ (request.endpoint = "bulk-analyze" /\ response.status = 200) =>
          /\ response.body.completed = response.body.total
          /\ \A i \in 1..Len(response.answers) :
                response.answers[i] = AllNullAnswers =>
                    IsMockFallback(response.body.analyses[i].analysis)

----------------------------------------------------------------------------
(* Properties of the cache *)

\* This step serves POST /api/analyze for a valid address.
AnalyzeStep ==
    /\ request'.endpoint = "analyze"
    /\ response'.status = 200
    /\ now' = now
    /\ redis' = redis

\* This step serves POST /api/clear-cache.
ClearCacheStep ==
    /\ request'.endpoint = "clear-cache"
    /\ now' = now
    /\ redis' = redis

\* Redis holds an unexpired value under the key.
Live(key) ==
    redis = "up" /\ key \in DOMAIN cache /\ now < cache[key].expiresAt

GetCachedStep == pc' = "getCachedResult" /\ clock' = clock

\* The age of the entry of the address getCachedResult is called for.
EntryAge == clock - memCache[input'.ipAddress].timestamp

\* getCachedResult returned null and the Map has no entry for the address.
ReturnsNullAndRemoves ==
    result' = Null /\ input'.ipAddress \notin DOMAIN memCache'

\* C12 as stated: getCachedResult returns null and removes the entry once
\* its age has reached the TTL; analyze(ip) that finds no unexpired value
\* answers cached = false and writes a fresh entry.
C12_NeverAtOrAfterTtl ==
    [][/\ (GetCachedStep /\ input'.ipAddress \in DOMAIN memCache
              /\ EntryAge >= MemStorage_CACHE_TTL) => ReturnsNullAndRemoves
       /\ (AnalyzeStep /\ ~Live(cacheKey(request'.ipAddress))) =>
             /\ ~response'.body.cached
             /\ cacheKey(request'.ipAddress) \in DOMAIN cache'
             /\ cache'[cacheKey(request'.ipAddress)].value = response'.body]_vars

\* C12: MemStorage.getCachedResult returns null and removes the entry when
\* its age exceeds the TTL, and returns the entry, leaving the Map alone, when
\* its age is at most the TTL (exactly the TTL included).  A Redis value is
\* never served once CACHE_TTL seconds have passed since its setex:
\* analyze(ip) then answers cached = false, and it writes a fresh entry,
\* good for CACHE_TTL seconds, when the Redis client exists and setex
\* resolves; otherwise the keyspace stays as it was.
C12_NeverAfterTtl ==
    [][/\ (GetCachedStep /\ input'.ipAddress \in DOMAIN memCache) =>
             IF EntryAge > MemStorage_CACHE_TTL
             THEN ReturnsNullAndRemoves
             ELSE /\ result' = [analysis |-> memCache[input'.ipAddress].analysis,
                                whois |-> memCache[input'.ipAddress].whois]
                  /\ memCache' = memCache
       /\ (GetCachedStep /\ input'.ipAddress \notin DOMAIN memCache) =>
             result' = Null /\ memCache' = memCache
       /\ AnalyzeStep =>
             LET key == cacheKey(request'.ipAddress)
             IN  /\ response'.body.cached =>
                       /\ key \in DOMAIN cache
                       /\ now < cache[key].expiresAt
                       /\ cache[key].expiresAt <= now + CACHE_TTL
                 /\ ~Live(key) =>
                       /\ ~response'.body.cached
                       /\ response'.fetched
                       /\ IF redis = "up" /\ response'.env.redisSet
                          THEN /\ key \in DOMAIN cache'
                               /\ cache'[key] = [value |-> response'.body,
                                                 expiresAt |-> now + CACHE_TTL]
                          ELSE cache' = cache
       /\ \A k \in DOMAIN cache' : now' < cache'[k].expiresAt]_vars

\* An entry exactly one time to live old was just returned by MemStorage.
C12_WitnessMem ==
    /\ pc = "getCachedResult"
    /\ result # Null
    /\ input.ipAddress \in DOMAIN memCache
    /\ clock - memCache[input.ipAddress].timestamp = MemStorage_CACHE_TTL

----------------------------------------------------------------------------
(* Properties of the error handling *)

\* This step serves POST /api/analyze.
AnalyzeRequestStep ==
    /\ request'.endpoint = "analyze"
    /\ now' = now
    /\ redis' = redis

\* C13: POST /api/analyze with an ipAddress that is not a valid IPv4 or IPv6
\* string is answered 400 before any adapter is called, and leaves the
\* analysis store, the WHOIS store and the cache as they were.
C13_MalformedRejected ==
    [][(AnalyzeRequestStep /\ request'.ipAddress \in MalformedIps) =>
           /\ response'.status = 400
           /\ "answers" \notin DOMAIN response'
           /\ "body" \notin DOMAIN response'
           /\ UNCHANGED <<memoryAnalyses, memoryWhois, dbAnalyses, dbWhois,
                          cache, nextId>>]_vars

\* An address with an octet of 256 was turned away while the stores and the
\* cache held an earlier analysis.
C13_Witness ==
    /\ request.endpoint = "analyze"
    /\ request.ipAddress = "8.8.8.256"
    /\ response.status = 400
    /\ memoryAnalyses # {}
    /\ cacheKey(CacheIp) \in DOMAIN cache

\* The answer of this step was fetched, classified and persisted: it has
\* cached = false and a new analysis and a WHOIS record of the address are in
\* the Maps.
AnsweredAsMiss ==
    /\ response'.status = 200
    /\ response'.fetched
    /\ ~response'.body.cached
    /\ response'.body.source = "real"
    /\ \E a \in memoryAnalyses' \ memoryAnalyses :
          /\ a.ipAddress = request'.ipAddress
          /\ Detection(a) = Detection(response'.body.analysis)
    /\ request'.ipAddress \in DOMAIN memoryWhois'
    /\ response'.body.whois.ipAddress = request'.ipAddress

\* C14: when there is no Redis client, or redis.get or redis.setex rejects,
\* POST /api/analyze for a valid address behaves as on a cache miss: it
\* fetches, classifies, persists and answers 200 with cached = false; the
\* keyspace is left alone by a failed or skipped write.  No request for a
\* valid address is answered with an error.
C14_CacheFailureIsMiss ==
    [][(AnalyzeRequestStep /\ request'.ipAddress \in ValidIps) =>
           /\ response'.status = 200
           /\ redis = "null" => AnsweredAsMiss /\ cache' = cache
           /\ (response'.fetched /\ ~response'.env.redisGet) => AnsweredAsMiss
           /\ (response'.fetched /\ ~response'.env.redisSet) =>
                 AnsweredAsMiss /\ cache' = cache
           /\ response'.fetched => AnsweredAsMiss]_vars

\* An address was analysed after the Redis client was lost.
C14_Witness ==
    /\ request.endpoint = "analyze"
    /\ response.status = 200
    /\ response.fetched
    /\ ~response.body.cached
    /\ redis = "null"
    /\ \E a \in memoryAnalyses : a.id = response.body.analysis.id

\* What POST /api/analyze computes from the answers of this step's adapters.
ComputedAnalysis == AnalysisDataTable[request'.ipAddress, response'.answers, now]

\* C15: when the MongoDB create rejects while a freshly classified analysis
\* is persisted, analyze still answers 200 with the computed analysis: the
\* same detection flags, riskScore and threatLevel.
C15_DbFailureKeepsResult ==
    [][(AnalyzeRequestStep /\ response'.status = 200 /\ response'.fetched
           /\ useDatabase /\ ~response'.env.db) =>
           /\ Detection(response'.body.analysis) = Detection(ComputedAnalysis)
           /\ response'.body.analysis.vpnProvider = ComputedAnalysis.vpnProvider
           /\ response'.body.analysis.ipAddress = request'.ipAddress
           /\ response'.body.analysis \in memoryAnalyses'
           /\ dbAnalyses' = dbAnalyses
           /\ ~response'.body.cached]_vars

\* A VPN verdict was returned although the database create had rejected.
C15_Witness ==
    /\ request.endpoint = "analyze"
    /\ response.status = 200
    /\ response.fetched
    /\ useDatabase
    /\ ~response.env.db
    /\ response.body.analysis.isVpn
    /\ response.body.analysis.riskScore = 75
    /\ dbAnalyses = {}

\* The exchange failed: anything but a parsed, non-null body.
Failed(o) == o.kind \in FailureKinds

\* C16: each adapter resolves to null when its credential is missing, the
\* network fails, the status is not 2xx or the body cannot be used, and
\* never rejects; so whatever the providers do, the request is answered 200.
C16_AdaptersAbsorbFailures ==
    /\ pc \in {"fetched", "answered"} =>
          /\ \A f \in DOMAIN result : result[f] # Rejected
          /\ Failed(input.geo) => result.geoData = Null
          /\ Failed(input.abuse) => result.abuseData = Null
          /\ Failed(input.pyProxy) => result.pyProxyData = Null
          /\ Failed(input.apiip) => result.apiipData = Null
          /\ Failed(input.whois) => result.whoisData = Null
    /\ pc = "answered" => response.status = 200

\* Every provider failed, each in its own way, and the request was answered.
C16_Witness ==
    /\ pc = "answered"
    /\ input.geo.kind = "networkError"
    /\ input.abuse.kind = "non2xx"
    /\ input.pyProxy.kind = "missingKey"
    /\ input.apiip.kind = "unparsable"
    /\ input.whois.kind = "jsonNull"
    /\ response.status = 200
    /\ response.analysis.riskScore = 15

\* The classification fields of an analysis.
Verdict(a) ==
    <<a.isVpn, a.isProxy, a.isTor, a.isDatacenter, a.vpnProvider, a.riskScore,
      a.threatLevel>>

RunningScores ==
    SubSeq(RiskSteps(result.isVpn, result.isProxy, result.isTor,
                     result.isDatacenter, input.abuseData), 1, 6)

\* C18: the risk score never decreases along the rule sequence: every rule
\* leaves the running score at or above the value it found, so the
\* datacenter rule cannot lower a score the Tor rule raised.
C18_ScoreNeverDecreases ==
    Classified =>
        /\ RunningScores[1] >= 0
        /\ \A i \in 1..5 : RunningScores[i + 1] >= RunningScores[i]

\* A provider's explicit proxy flag, in the form the code looks for.
ProxyFlagSet ==
    \/ FlagIs(input.pyProxyData, "is_proxy", JsTrue)
    \/ FlagIs(input.apiipData, "is_proxy", JsStrTrue)

\* organization or isp of the result contains the word, whatever its case.
OrgOrIspContains(word) ==
    \/ includes(toLowerCase(result.organization), word)
    \/ includes(toLowerCase(result.isp), word)

\* AbuseIPDB classifies the address as "Data Center".
UsageDataCenter ==
    /\ input.abuseData # Null
    /\ Has(input.abuseData, "usageType")
    /\ input.abuseData.usageType = "Data Center"

\* AbuseIPDB counts at least one report.
Reported ==
    /\ input.abuseData # Null
    /\ Has(input.abuseData, "totalReports")
    /\ input.abuseData.totalReports > 0

\* C19: isProxy is true exactly when a provider's proxy flag is set, or
\* organization or isp contains "proxy", or the usage type is "Data Center"
\* and the report count is above 0; a "Data Center" usage type with zero
\* reports alone does not set isProxy.
C19_ProxyExactly ==
    Classified =>
        (result.isProxy <=>
            \/ ProxyFlagSet
            \/ OrgOrIspContains("proxy")
            \/ (UsageDataCenter /\ Reported))

\* organization or isp contains an entry of HOSTING_PROVIDERS.
InHostingList ==
    SomeEntry(HOSTING_PROVIDERS_LOWER, toLowerCase(result.organization),
              toLowerCase(result.isp))

\* C20: isDatacenter is true whenever organization or isp contains a
\* hosting-provider list entry or the text "datacenter" or "hosting",
\* whatever the case, and false when none of these holds.
C20_DatacenterExactly ==
    Classified =>
        (result.isDatacenter <=>
            \/ InHostingList
            \/ OrgOrIspContains("datacenter")
            \/ OrgOrIspContains("hosting"))

\* The riskScore the inputs of the last call give when AbuseIPDB's answer is
\* replaced by a.
ScoreWithAbuse(a) ==
    generateRealAnalysis(input.ip, input.geoData, a, input.pyProxyData,
                         input.apiipData, ClassifyTime).riskScore

\* AbuseIPDB's answer carries a report count.
HasReports == input.abuseData # Null /\ Has(input.abuseData, "totalReports")

\* AbuseIPDB's answer without its report count.
WithoutReports ==
    Restrict(input.abuseData, DOMAIN input.abuseData \ {"totalReports"})

\* C21: the report boost is applied last and clamped: with totalReports > 3
\* the final riskScore is min(100, s + 15), s being the score of the same
\* inputs with totalReports <= 3; with totalReports <= 3 there is no boost.
C21_BoostLastAndClamped ==
    (Classified /\ HasReports) =>
        IF input.abuseData.totalReports > 3
        THEN result.riskScore =
                Min(100, ScoreWithAbuse([input.abuseData EXCEPT !.totalReports = 3])
                         + 15)
        ELSE result.riskScore = ScoreWithAbuse(WithoutReports)

\* The cap cuts the boost: a Tor exit with four reports goes from 95 to 100,
\* not to 110.
C21_Witness ==
    /\ Classified
    /\ HasReports
    /\ input.abuseData.totalReports = 4
    /\ result.isTor
    /\ ScoreWithAbuse([input.abuseData EXCEPT !.totalReports = 3]) = 95
    /\ result.riskScore = 100

\* C22: a cache hit in POST /api/analyze has no side effects: no adapter is
\* called, no analysis or WHOIS record is created, and the cache entry and
\* its expiry stay as they were.
C22_HitHasNoSideEffects ==
    [][(AnalyzeRequestStep /\ response'.status = 200 /\ response'.body.cached)
        => /\ ~response'.fetched
           /\ UNCHANGED <<memoryAnalyses, memoryWhois, dbAnalyses, dbWhois,
                          nextId, cache>>]_vars

\* A hit half an hour after the entry was written: the entry still expires
\* an hour after the write and one record is stored.
C22_Witness ==
    /\ request.endpoint = "analyze"
    /\ response.status = 200
    /\ response.body.cached
    /\ now = CacheTickStep
    /\ response.body.analysis.analyzedAt = 0
    /\ cacheKey(CacheIp) \in DOMAIN cache
    /\ cache[cacheKey(CacheIp)].expiresAt = CACHE_TTL
    /\ Cardinality(memoryAnalyses) = 1

\* Every analysis record a storage holds: the Map and the collection of
\* MongoStorage, the Map of MemStorage.
StoredAnalyses == memoryAnalyses \cup dbAnalyses \cup analyses

\* The step is a deleteAnalysis(id), through DELETE /api/analyses/:id or as
\* a call of MemStorage.
DeleteStep(id) ==
    \/ request'.endpoint = "delete" /\ request'.id = id
    \/ pc' = "deleteAnalysis" /\ input'.id = id

\* C23: stored analysis records are immutable: once created, a record keeps
\* every field through all later operations; it can only be removed, by
\* deleteAnalysis of its id, and an id is never given to another record.
C23_RecordsImmutable ==
    [][/\ \A r \in StoredAnalyses :
            \/ r \in StoredAnalyses'
            \/ /\ DeleteStep(r.id)
               /\ \A q \in StoredAnalyses' : q.id # r.id
       /\ \A r \in StoredAnalyses' \ StoredAnalyses :
            /\ r.id >= nextId
            /\ r.id < nextId'
       /\ \A r, q \in StoredAnalyses' : r.id = q.id => r = q]_vars

\* The address was analysed twice with a database and the first document
\* was deleted: the second is still stored, with the Map's two records.
C23_Witness ==
    /\ useDatabase
    /\ request.endpoint = "delete"
    /\ response.status = 200
    /\ Cardinality(memoryAnalyses) = 2
    /\ Cardinality(dbAnalyses) = 1
    /\ \A d \in dbAnalyses : d.id > request.id

\* MemStorage: a record was created, another one too, and the first was
\* deleted.
C23_WitnessMem ==
    /\ pc = "deleteAnalysis"
    /\ result.deleted
    /\ Cardinality(analyses) = 1
    /\ \A a \in analyses : a.id > input.id

\* Both requests are answered and both read the cache, and missed, before
\* either made its setex call.
Raced ==
    \A p \in Procs :
        /\ pc[p] = "done"
        /\ Has(result[p], "readCache")
        /\ result[p].readCache
        /\ result[p].writesAtRead = 0

\* Both requests were answered cached = false, with analyses of different
\* ids that are both stored.
BothFetchedAndStored ==
    /\ \A p \in Procs :
          /\ ~result[p].sent.cached
          /\ result[p].sent.analysis \in memoryAnalyses \cup dbAnalyses
    /\ result[1].sent.analysis.id # result[2].sent.analysis.id

\* The request whose setex call was made after the other's.
IsLaterWriter(p) == Has(result[p], "wroteAs") /\ result[p].wroteAs = 2

\* C24 as stated: after two interleaved misses for one address both requests
\* are answered cached = false, each has stored its own analysis under its
\* own id, and the cache entry of the address is the result of the later
\* writer.
C24_LaterWriterCached ==
    Raced =>
        /\ BothFetchedAndStored
        /\ cacheKey(CacheIp) \in DOMAIN cache
        /\ \E p \in Procs :
              /\ IsLaterWriter(p)
              /\ cache[cacheKey(CacheIp)].value = result[p].sent

\* The setex of p resolved.
Wrote(p) == Has(result[p], "wroteAs") /\ result[p].setOk

\* C24: after two interleaved misses for one address both requests are
\* answered cached = false and each has stored its own analysis under its own
\* id.  The cache entry of the address, when there is one, is the result of
\* the last request whose setex resolved; when the client is still there and
\* both setex calls resolved, there is an entry and it is the later writer's.
C24_LastResolvedWriterCached ==
    Raced =>
        /\ BothFetchedAndStored
        /\ cacheKey(CacheIp) \in DOMAIN cache =>
              \E p \in Procs :
                  /\ Wrote(p)
                  /\ cache[cacheKey(CacheIp)].value = result[p].sent
                  /\ \A q \in Procs \ {p} :
                        Wrote(q) => result[q].wroteAs < result[p].wroteAs
        /\ (redis = "up" /\ \A p \in Procs : Wrote(p)) =>
              /\ cacheKey(CacheIp) \in DOMAIN cache
              /\ \E p \in Procs :
                    /\ IsLaterWriter(p)
                    /\ cache[cacheKey(CacheIp)].value = result[p].sent

\* Request 1 wrote its NordVPN result first, request 2 its mock result
\* after it: the entry is the mock result.
C24_Witness ==
    /\ Raced
    /\ redis = "up"
    /\ \A p \in Procs : Wrote(p)
    /\ result[1].wroteAs = 1
    /\ result[1].sent.analysis.riskScore = 75
    /\ result[2].sent.analysis.riskScore = 15
    /\ cache[cacheKey(CacheIp)].value = result[2].sent

\* The step is one request going through rateLimit.
RateLimitStep == pc' = "rateLimit" /\ clock' = clock

\* The client of the request has a window that is still open.
WindowOpen(ip) == ip \in DOMAIN requestCounts /\ clock <= requestCounts[ip].resetAt

\* C25: rateLimit lets at most 50 requests of a client through in one
\* window: the stored count never exceeds 50 and is the number of requests
\* let through; a request arriving after the 50th is answered 429, next is not
\* called and the count stays; the first request after resetAt opens a new
\* window with count 1.
C25_AtMostFiftyPerWindow ==
    [][RateLimitStep =>
          LET ip == input'.ip
          IN  /\ requestCounts'[ip].count <= RateLimitMax
              /\ result'.through[ip] = requestCounts'[ip].count
              /\ (WindowOpen(ip) /\ result.through[ip] = RateLimitMax) =>
                    /\ result'.status = 429
                    /\ ~result'.next
                    /\ requestCounts' = requestCounts
              /\ (ip \in DOMAIN requestCounts /\ ~WindowOpen(ip)) =>
                    /\ result'.next
                    /\ requestCounts'[ip] =
                          [count |-> 1, resetAt |-> clock + RateLimitWindow]]_vars

\* In the last millisecond of its window the first client is refused after
\* 50 requests, while the second client has just opened a window of its own.
C25_Witness ==
    /\ pc = "rateLimit"
    /\ clock = RateLimitWindow
    /\ input.ip = "10.0.0.1"
    /\ result.status = 429
    /\ requestCounts["10.0.0.1"] = [count |-> RateLimitMax, resetAt |-> RateLimitWindow]
    /\ "10.0.0.2" \in DOMAIN requestCounts
    /\ requestCounts["10.0.0.2"] = [count |-> 1, resetAt |-> 2 * RateLimitWindow]

\* The first client's window ran out and its next request opened a new one.
C25_WitnessNewWindow ==
    /\ pc = "rateLimit"
    /\ clock = RateLimitWindow + 1
    /\ input.ip = "10.0.0.1"
    /\ result.opened
    /\ result.next
    /\ requestCounts["10.0.0.1"] = [count |-> 1, resetAt |-> 2 * RateLimitWindow + 1]

\* The analyses getAllAnalyses lists when its query resolves.
Listed ==
    LET list == getAllAnalyses(CurrentStore, useDatabase, TRUE)
    IN  {list[i] : i \in DOMAIN list}

\* C26: in MongoStorage, with or without MongoDB, every analysis that
\* getAllAnalyses lists is returned by getAnalysis of its id, and
\* deleteAnalysis of its id returns true and takes it out of getAllAnalyses
\* and getStats.
C26_ListedCanBeFetchedAndDeleted ==
    [][\A r \in Listed :
          /\ (request'.endpoint = "analysis" /\ request'.id = r.id) =>
                /\ response'.status = 200
                /\ response'.body.analysis = r
          /\ (request'.endpoint = "delete" /\ request'.id = r.id) =>
                /\ response'.status = 200
                /\ r \notin Listed'
                /\ getStats(CurrentStore, useDatabase, TRUE)'.totalScans
                      = getStats(CurrentStore, useDatabase, TRUE).totalScans - 1
      ]_vars

\* C27: an analysis that POST /api/analyze returns with cached = true is
\* still in storage: once DELETE /api/analyses/:id has succeeded for it, no
\* analyze response returns its id.
C27_CachedAnalysisStillStored ==
    (request.endpoint = "analyze" /\ response.status = 200 /\ response.body.cached)
        => \E r \in memoryAnalyses \cup dbAnalyses :
              r.id = response.body.analysis.id

\* The fields the two endpoints are compared on.
ComparedFields(a) ==
    <<a.isVpn, a.isProxy, a.isTor, a.isDatacenter, a.riskScore, a.threatLevel,
      a.organization>>

\* The analysisData POST /api/analyze computes for the address of a bulk item
\* from the adapter answers the item was computed from.
SingleAnalysisOf(item, answers) ==
    AnalysisDataTable[item.analysis.ipAddress, answers, item.analysis.analyzedAt]

\* C28: POST /api/bulk-analyze and POST /api/analyze agree per address: for
\* the same uncached valid address and the same adapter answers, all null
\* included, the bulk item's analysis has the isVpn, isProxy, isTor,
\* isDatacenter, riskScore, threatLevel and organization of the single
\* analysis.
C28_BulkAgreesWithSingle ==
    (request.endpoint = "bulk-analyze" /\ response.status = 200) =>
        \A i \in DOMAIN response.body.analyses :
            response.answers[i] # NoResult =>
                ComparedFields(response.body.analyses[i].analysis)
                    = ComparedFields(SingleAnalysisOf(response.body.analyses[i],
                                                      response.answers[i]))

\* C29: every analysis record POST /api/analyze persists has ipVersion equal
\* to getIpVersion(ipAddress), "IPv4" or "IPv6" by the pattern the address
\* matches, on the live path and on the mock path.
C29_IpVersionOfAddress ==
    AnalyzeFetched =>
        /\ response.body.analysis \in memoryAnalyses \cup dbAnalyses
        /\ response.body.analysis.ipVersion = getIpVersion(request.ipAddress)

\* The analyses the last GET /api/stats counted over.
Counted == StatsSource(CurrentStore, useDatabase, response.dbOk)

\* C30: after any sequence of analyze and delete requests getStats reports
\* as totalScans the number of stored analyses (those getAllAnalyses lists),
\* counts every analysis flagged as VPN among the threats, so that
\* vpnsDetected <= threatsDetected <= totalScans, and counts no analysis both
\* as a threat and as clean.  The same holds for MemStorage.getStats.
C30_StatsConsistent ==
    /\ request.endpoint = "stats" =>
          /\ response.body.totalScans
                = Len(getAllAnalyses(CurrentStore, useDatabase, response.dbOk))
          /\ VpnsIn(Counted) \subseteq ThreatsIn(Counted)
          /\ ThreatsIn(Counted) \cap CleanIn(Counted) = {}
          /\ response.body.vpnsDetected <= response.body.threatsDetected
          /\ response.body.threatsDetected <= response.body.totalScans
          /\ response.body.threatsDetected + response.body.cleanIps
                <= response.body.totalScans
    /\ pc = "getStats" =>
          /\ result.totalScans = Cardinality(analyses)
          /\ result.vpnsDetected <= result.threatsDetected
          /\ result.threatsDetected <= result.totalScans
          /\ result.threatsDetected + result.cleanIps = result.totalScans

\* Two analyses were made with a database, a mock one and a NordVPN one, the
\* mock one was deleted, and the stats count the VPN as the one scan and the
\* one threat.
C30_Witness ==
    /\ request.endpoint = "stats"
    /\ useDatabase
    /\ response.dbOk
    /\ Cardinality(memoryAnalyses) = 2
    /\ response.body = [totalScans |-> 1, threatsDetected |-> 1, cleanIps |-> 0,
                        vpnsDetected |-> 1]

=============================================================================
